---- MODULE Spec2Model ----
(***************************************************************************)
(* State-machine model of xe::gpu::d3d12::PipelineCache                    *)
(* (pipeline_cache.cc): the shader dictionary, the pipeline lookup         *)
(* structure, the pipeline creation threads, the storage write thread and  *)
(* the persistent shader / pipeline description logs.                      *)
(*                                                                         *)
(* Every critical section (a block under creation_request_lock_ or        *)
(* storage_write_request_lock_) is one atomic step; code that runs outside *)
(* a lock is merged with the critical section that follows it.            *)
(***************************************************************************)
EXTENDS Integers, Sequences, FiniteSets, TLC

(***************************************************************************)
(* Bounds of the model.                                                    *)
(***************************************************************************)
\* Largest size of the creation thread pool (cvars::d3d12_pipeline_creation_threads).
MaxCreationThreads == 1
\* Largest number of Pipeline objects alive at the same time.
MaxPipelines == 2
\* Largest number of calls made on the pipeline cache in one run.
MaxCalls == 4
\* Largest number of complete records in a log file found at startup.
MaxRecords == 2
\* Largest number of logical processors of the host.
MaxLogicalProcessors == 3

(***************************************************************************)
(* Values.                                                                 *)
(***************************************************************************)
\* Microcode hashes of the guest shaders a title uses (XXH64 of the ucode).
VertexShaderHashes == {1}
PixelShaderHashes == {2}
ShaderHashes == VertexShaderHashes \cup PixelShaderHashes
\* pixel_shader == nullptr, pixel_shader_hash == 0.
NoShader == 0
\* The fixed-function part of a PipelineDescription, as one value.
FixedFunctionStates == {0, 1}
\* PipelineDescription: only these bytes take part in memcmp and XXH64.
Descriptions ==
  [vertex_shader_hash : VertexShaderHashes,
   pixel_shader_hash : PixelShaderHashes \cup {NoShader},
   fixed_function : FixedFunctionStates]
\* The command processor thread, and a second thread that issues draws.
ProcessorThread == "processor"
SecondThread == "second"
Callers == {ProcessorThread, SecondThread}
\* nullptr for a Pipeline*.
NullPipeline == 0
PipelineIds == 1..MaxPipelines
\* The values of logical_processor_count: what
\* xe::threading::logical_processor_count() gives, 6 standing in for 0.
LogicalProcessorCounts == 1..MaxLogicalProcessors
\* No more translation threads than logical processors minus one exist.
TranslationThreadIds == 1..(MaxLogicalProcessors - 1)
\* The threads Initialize can create, and one more for the specification of
\* Shutdown, which starts with at least two.
CreationThreadIds == 1..(MaxCreationThreads + 1)
\* creation_threads_shutdown_from_ == SIZE_MAX.
SIZE_MAX == MaxCreationThreads + 1
\* *pipeline_handle_out before ConfigurePipeline writes it.
Unwritten == "unwritten"

\* XXH64(&description, sizeof(description), 0): equal bytes hash equally,
\* different bytes may collide.
DescriptionHash(d) ==
  (d.vertex_shader_hash + d.pixel_shader_hash + d.fixed_function) % 2

VARIABLES
  creation_thread_count,            \* creation_threads_.size()
  shaders_,                         \* hash -> shader object
  pipelines_,                       \* ids of the Pipeline objects in the multimap
  pipeline,                         \* id -> Pipeline object
  current_pipeline_,
  creation_queue_,
  creation_threads_busy_,
  creation_completion_event_,       \* TRUE when the event is signaled
  creation_completion_set_event_,
  creation_threads_shutdown_from_,
  creation_pc,                      \* position of every creation thread
  creation_local,                   \* pipeline_to_create of every creation thread
  storage_write_thread_,            \* TRUE when the thread object exists
  storage_write_thread_shutdown_,
  storage_write_shader_queue_,
  storage_write_pipeline_queue_,
  storage_write_flush_shaders_,
  storage_write_flush_pipelines_,
  shader_storage_file_,             \* TRUE when the FILE* is open
  pipeline_storage_file_,
  shader_storage_file_flush_needed_,
  pipeline_storage_file_flush_needed_,
  storage_pc,                       \* position of the storage write thread
  storage_local,                    \* locals of StorageWriteThread
  shader_file,                      \* records of the .xsh file on disk
  pipeline_file,                    \* records of the .xpso file on disk
  shader_enqueued,                  \* history: shaders queued for writing in this session
  pipeline_enqueued,                \* history: descriptions queued in this session
  shader_appended,                  \* history: shader records appended in this session
  pipeline_appended,                \* history: description records appended in this session
  assert_failed,                    \* assertions of the code that did not hold
  crashed,                          \* TRUE after a null pointer was dereferenced
  pc,                               \* position of every calling thread
  frame,                            \* locals of the call in progress
  out,                              \* result and output parameters of the last call
  overlapped,                       \* TRUE once two calls overlapped in time
  calls,                            \* calls made so far
  translator,                       \* the DxbcShaderTranslator: its fields and its last call
  enumerator                        \* the XStaticEnumerator: its fields and its last call

creationVars ==
  <<creation_queue_, creation_threads_busy_, creation_completion_event_,
    creation_completion_set_event_, creation_threads_shutdown_from_,
    creation_pc, creation_local>>
storageQueueVars ==
  <<storage_write_shader_queue_, storage_write_pipeline_queue_,
    shader_enqueued, pipeline_enqueued>>
storageFlagVars ==
  <<storage_write_thread_, storage_write_thread_shutdown_,
    storage_write_flush_shaders_, storage_write_flush_pipelines_,
    shader_storage_file_, pipeline_storage_file_,
    shader_storage_file_flush_needed_, pipeline_storage_file_flush_needed_>>
storageThreadVars == <<storage_pc, storage_local>>
fileVars == <<shader_file, pipeline_file, shader_appended, pipeline_appended>>
storageVars == <<storageQueueVars, storageFlagVars, storageThreadVars, fileVars>>
cacheVars == <<shaders_, pipelines_, pipeline, current_pipeline_>>
callVars == <<pc, frame, out, overlapped, calls>>
pipelineCacheVars ==
  <<creation_thread_count, cacheVars, creationVars, storageVars,
    assert_failed, crashed, callVars>>
vars == <<pipelineCacheVars, translator, enumerator>>

(***************************************************************************)
(* Objects.                                                                *)
(***************************************************************************)
\* A D3D12Shader that LoadShader or the shader log replay created. translations
\* counts the Translate calls made on the object.
NewShader ==
  [present |-> TRUE, is_translated |-> FALSE, is_valid |-> FALSE, translations |-> 0]
AbsentShader ==
  [present |-> FALSE, is_translated |-> FALSE, is_valid |-> FALSE, translations |-> 0]

\* ShaderTranslator::Translate: the shader is translated from then on, and valid
\* when the translation succeeded.
Translate(shader, success) ==
  [shader EXCEPT !.is_translated = TRUE,
                 !.is_valid = success,
                 !.translations = @ + 1]

\* PipelineCache::TranslateShader: the shader after translator.Translate, and
\* the return value, shader.is_valid().
TranslateShader(shader, success) ==
  [shader |-> Translate(shader, success),
   result |-> Translate(shader, success).is_valid]

NoDescription == [vertex_shader_hash |-> 0, pixel_shader_hash |-> 0, fixed_function |-> 0]
\* A Pipeline slot that holds no object. created counts the CreateD3D12Pipeline
\* calls made for the object.
FreePipeline ==
  [allocated |-> FALSE, description |-> NoDescription, state |-> "null", created |-> 0]
\* new Pipeline; state = nullptr; memcpy of the runtime description.
NewPipeline(description) ==
  [allocated |-> TRUE, description |-> description, state |-> "null", created |-> 0]

\* An unused slot stands for the address operator new returns.
FreeIds == {id \in PipelineIds : ~pipeline[id].allocated}
AllocatePipeline == CHOOSE id \in FreeIds : \A other \in FreeIds : id <= other

\* PipelineCache::CreateD3D12Pipeline: nullptr when a shader is not translated
\* or when CreateGraphicsPipelineState fails, the state object otherwise.
CreateD3D12Pipeline(description, device_ok) ==
  IF ~shaders_[description.vertex_shader_hash].is_translated THEN "null"
  ELSE IF /\ description.pixel_shader_hash # NoShader
          /\ ~shaders_[description.pixel_shader_hash].is_translated THEN "null"
  ELSE IF device_ok THEN "object" ELSE "null"

\* pipeline_to_create->state = CreateD3D12Pipeline(pipeline_to_create->description).
CreatePipelineState(id, device_ok) ==
  [pipeline EXCEPT ![id].state = CreateD3D12Pipeline(pipeline[id].description, device_ok),
                   ![id].created = @ + 1]

\* Variant of MatchingPipelines: a lookup that overlooks the entries whose
\* object is null.
MatchingCreatedPipelines(description) ==
  {id \in pipelines_ : /\ pipeline[id].description = description
                       /\ pipeline[id].state = "object"}

\* The loop over pipelines_.equal_range(hash) with the memcmp of the descriptions.
MatchingPipelines(description) ==
  {id \in pipelines_ :
     /\ DescriptionHash(pipeline[id].description) = DescriptionHash(description)
     /\ pipeline[id].description = description}

\* Variant of FindPipeline: a lookup that never finds an entry.
FindNothing(description) == NullPipeline

FindPipeline(description) ==
  IF MatchingPipelines(description) = {} THEN NullPipeline
  ELSE CHOOSE id \in MatchingPipelines(description) :
         \A other \in MatchingPipelines(description) : id <= other

\* The memcmp of ConfigurePipeline with current_pipeline_.
IsCurrentPipeline(description) ==
  /\ current_pipeline_ # NullPipeline
  /\ pipeline[current_pipeline_].description = description

\* Variant of Front: the element at the other end of the deque.
Back(queue) == queue[Len(queue)]

\* std::deque::front and pop_front.
Front(queue) == Head(queue)

\* Variant of PopFront: the front element is left in the deque.
KeepFront(queue) == queue

PopFront(queue) == Tail(queue)

(***************************************************************************)
(* Condition variables: a notification moves waiting threads back to the   *)
(* point where they take the lock again.                                   *)
(***************************************************************************)
CreationThreads == 1..creation_thread_count
CreationWaiters(cpc) == {t \in CreationThreads : cpc[t] = "wait"}
\* creation_request_cond_.notify_one(): the possible positions afterwards.
CreationNotifyOne(cpc) ==
  IF CreationWaiters(cpc) = {} THEN {cpc}
  ELSE {[cpc EXCEPT ![t] = "lock"] : t \in CreationWaiters(cpc)}
\* creation_request_cond_.notify_all().
CreationNotifyAll(cpc) ==
  [t \in CreationThreadIds |-> IF cpc[t] = "wait" THEN "lock" ELSE cpc[t]]
\* storage_write_request_cond_.notify_one() and notify_all(): one waiter at most.
StorageNotify(spc) == IF spc = "wait" THEN "loop" ELSE spc

(***************************************************************************)
(* Calls.                                                                  *)
(***************************************************************************)
EmptyFrame ==
  [op |-> "none", description |-> NoDescription, hash |-> 0,
   new_pipeline |-> NullPipeline, shutting_down |-> FALSE,
   reinitialize |-> FALSE, blocking |-> FALSE, index |-> 0,
   valid |-> 0, original_count |-> 0, return_to |-> "idle",
   \* history of a replay: the shader log and the dictionary it started
   \* with, and the hashes of the shader objects that the read loop created
   shader_log |-> [header |-> FALSE, records |-> <<>>,
                   tail |-> [kind |-> "none", ucode_data_hash |-> NoShader]],
   shaders_before |-> [h \in ShaderHashes |-> AbsentShader],
   created |-> {},
   \* locals of InitializeShaderStorage that its translation threads share,
   \* the position and the shader_to_translate of each thread, and the
   \* history of TranslateShader calls as <<thread, hash>>
   logical_processor_count |-> 0,
   shaders_to_translate |-> <<>>,
   shader_translation_threads_busy |-> 0,
   shader_translation_threads_shutdown |-> FALSE,
   shaders_failed_to_translate |-> {},
   shader_translation_threads |-> 0,
   translation_pc |-> [t \in TranslationThreadIds |-> "none"],
   translation_local |-> [t \in TranslationThreadIds |-> NoShader],
   translated |-> <<>>]
\* What a call left behind: its return value and output parameters, the
\* description it was made with, whether it got past the cache lookup (miss)
\* and the failure it ran into (cause).
NoResult ==
  [op |-> "none", description |-> NoDescription, result |-> "none",
   pipeline_handle_out |-> Unwritten, root_signature_out |-> Unwritten,
   miss |-> FALSE, cause |-> "none"]

\* A call starts: note whether another thread is inside a call.
Begin(c) ==
  /\ overlapped' = (overlapped \/ \E other \in Callers \ {c} : pc[other] # "idle")
  /\ calls' = calls + 1

Return(c, result) ==
  /\ pc' = [pc EXCEPT ![c] = "idle"]
  /\ frame' = [frame EXCEPT ![c] = EmptyFrame]
  /\ out' = [out EXCEPT ![c] = result]

\* The calls of this model are made while the process is alive.
CanCall(c) == pc[c] = "idle" /\ ~crashed /\ calls < MaxCalls

\* Pipeline objects that exist or that a call in progress is about to create.
PipelinesInUse ==
  Cardinality(pipelines_)
    + Cardinality({c \in Callers : pc[c] \in {"cp_translate_pixel", "cp_insert"}})

(***************************************************************************)
(* PipelineCache::LoadShader                                               *)
(***************************************************************************)
LoadShader(c, data_hash) ==
  /\ CanCall(c)
  /\ Begin(c)
  /\ shaders_' = IF shaders_[data_hash].present THEN shaders_
                 ELSE [shaders_ EXCEPT ![data_hash] = NewShader]
  /\ out' = [out EXCEPT ![c] = [NoResult EXCEPT !.op = "LoadShader"]]
  /\ UNCHANGED <<creation_thread_count, pipelines_, pipeline, current_pipeline_,
                 creationVars, storageVars, assert_failed, crashed, pc, frame>>
  /\ UNCHANGED <<translator, enumerator>>

(***************************************************************************)
(* PipelineCache::ConfigurePipeline                                        *)
(***************************************************************************)
\* Variant of GetCurrentStateDescription: the host vertex shader type is not
\* validated.
GetCurrentStateDescriptionAnyVertexShaderType(root_signature_ok, host_vertex_shader_type_ok) ==
  root_signature_ok

\* GetCurrentStateDescription fails without a root signature and for an
\* unsupported host vertex shader type.
GetCurrentStateDescription(root_signature_ok, host_vertex_shader_type_ok) ==
  root_signature_ok /\ host_vertex_shader_type_ok

\* Variant of NeedsTranslation: a shader whose translation failed is translated
\* again.
NeedsTranslationUnlessValid(shader) == ~shader.is_valid

\* EnsureShadersTranslated translates a shader that is not translated yet.
NeedsTranslation(shader) == ~shader.is_translated

\* Variant of UseCreationThreads: pipelines are queued without creation threads.
UseCreationThreadsAlways == TRUE

\* The branch of ConfigurePipeline and of the log replay that hands a new
\* pipeline to the creation threads.
UseCreationThreads == creation_thread_count # 0

\* storage_write_shader_queue_.push_back under storage_write_request_lock_,
\* then notify_all; only with an open shader storage file.
EnqueueShaderWrite(shader_hash) ==
  IF shader_storage_file_
    THEN /\ storage_write_shader_queue_' = Append(storage_write_shader_queue_, shader_hash)
         /\ shader_enqueued' = Append(shader_enqueued, shader_hash)
         /\ shader_storage_file_flush_needed_' = TRUE
         /\ storage_pc' = StorageNotify(storage_pc)
         /\ assert_failed' = IF storage_write_thread_ THEN assert_failed
                             ELSE assert_failed \cup {"storage_write_thread_"}
    ELSE UNCHANGED <<storage_write_shader_queue_, shader_enqueued,
                     shader_storage_file_flush_needed_, storage_pc, assert_failed>>

ShaderWriteUnchanged ==
  UNCHANGED <<storage_write_shader_queue_, shader_enqueued,
              shader_storage_file_flush_needed_, storage_pc, assert_failed>>

CallResult(description, result, handle, miss, cause) ==
  [op |-> "ConfigurePipeline", description |-> description, result |-> result,
   pipeline_handle_out |-> handle,
   root_signature_out |-> IF result = "true" THEN "written" ELSE Unwritten,
   miss |-> miss, cause |-> cause]

\* The condition that makes a request fail before the cache lookup.
StateFailure(root_signature_ok, host_vertex_shader_type_ok) ==
  IF ~root_signature_ok THEN "root_signature"
  ELSE IF ~host_vertex_shader_type_ok THEN "host_vertex_shader_type"
  ELSE "none"

\* From the entry to the end of the vertex shader part of EnsureShadersTranslated.
ConfigurePipeline(c, vertex_shader, pixel_shader, fixed_function, root_signature_ok, host_vertex_shader_type_ok, translated_ok) ==
  LET description == [vertex_shader_hash |-> vertex_shader,
                      pixel_shader_hash |-> pixel_shader,
                      fixed_function |-> fixed_function]
      found == FindPipeline(description)
      failure == StateFailure(root_signature_ok, host_vertex_shader_type_ok)
      translation == TranslateShader(shaders_[vertex_shader], translated_ok)
      continue(cause) ==
        /\ pc' = [pc EXCEPT ![c] = "cp_translate_pixel"]
        /\ frame' = [frame EXCEPT ![c] =
             [EmptyFrame EXCEPT !.op = "ConfigurePipeline",
                                !.description = description,
                                !.hash = DescriptionHash(description)]]
        /\ out' = [out EXCEPT ![c] =
             CallResult(description, "none", Unwritten, TRUE, cause)]
  IN
  /\ CanCall(c)
  /\ shaders_[vertex_shader].present
  /\ pixel_shader # NoShader => shaders_[pixel_shader].present
  /\ Begin(c)
  /\ UNCHANGED <<creation_thread_count, pipelines_, pipeline, creationVars,
                 storage_write_pipeline_queue_, pipeline_enqueued,
                 storage_write_thread_, storage_write_thread_shutdown_,
                 storage_write_flush_shaders_, storage_write_flush_pipelines_,
                 shader_storage_file_, pipeline_storage_file_,
                 pipeline_storage_file_flush_needed_,
                 storage_local, fileVars, crashed>>
  /\ IF ~GetCurrentStateDescription(root_signature_ok, host_vertex_shader_type_ok)
       THEN /\ Return(c, CallResult(description, "false", Unwritten, FALSE, failure))
            /\ UNCHANGED <<shaders_, current_pipeline_>>
            /\ ShaderWriteUnchanged
     ELSE IF IsCurrentPipeline(description)
       THEN /\ Return(c, CallResult(description, "true", current_pipeline_, FALSE,
                                    failure))
            /\ UNCHANGED <<shaders_, current_pipeline_>>
            /\ ShaderWriteUnchanged
     ELSE IF found # NullPipeline
       THEN /\ current_pipeline_' = found
            /\ Return(c, CallResult(description, "true", found, FALSE, failure))
            /\ UNCHANGED shaders_
            /\ ShaderWriteUnchanged
     ELSE /\ PipelinesInUse < MaxPipelines
          /\ UNCHANGED current_pipeline_
          /\ IF NeedsTranslation(shaders_[vertex_shader])
               THEN /\ shaders_' = [shaders_ EXCEPT ![vertex_shader] = translation.shader]
                    /\ IF translation.result
                         THEN /\ EnqueueShaderWrite(vertex_shader)
                              /\ continue(IF translated_ok THEN failure
                                          ELSE "vertex_translation")
                         ELSE /\ Return(c, CallResult(description, "false", Unwritten,
                                            TRUE, "vertex_translation"))
                              /\ ShaderWriteUnchanged
               ELSE /\ UNCHANGED shaders_
                    /\ ShaderWriteUnchanged
                    /\ continue(failure)
  /\ UNCHANGED <<translator, enumerator>>

\* The pixel shader part of EnsureShadersTranslated.
ConfigurePipelineTranslatePixel(c, translated_ok) ==
  LET description == frame[c].description
      pixel_shader == description.pixel_shader_hash
      translation == TranslateShader(shaders_[pixel_shader], translated_ok)
  IN
  /\ pc[c] = "cp_translate_pixel"
  /\ ~crashed
  /\ UNCHANGED <<creation_thread_count, pipelines_, pipeline, current_pipeline_,
                 creationVars, storage_write_pipeline_queue_, pipeline_enqueued,
                 storage_write_thread_, storage_write_thread_shutdown_,
                 storage_write_flush_shaders_, storage_write_flush_pipelines_,
                 shader_storage_file_, pipeline_storage_file_,
                 pipeline_storage_file_flush_needed_,
                 storage_local, fileVars, crashed, overlapped, calls>>
  /\ IF pixel_shader # NoShader /\ NeedsTranslation(shaders_[pixel_shader])
       THEN /\ shaders_' = [shaders_ EXCEPT ![pixel_shader] = translation.shader]
            /\ IF translation.result
                 THEN /\ EnqueueShaderWrite(pixel_shader)
                      /\ pc' = [pc EXCEPT ![c] = "cp_insert"]
                      /\ out' = [out EXCEPT ![c].cause =
                           IF translated_ok THEN @ ELSE "pixel_translation"]
                      /\ UNCHANGED frame
                 ELSE /\ Return(c, CallResult(description, "false", Unwritten,
                                    TRUE, "pixel_translation"))
                      /\ ShaderWriteUnchanged
       ELSE /\ UNCHANGED shaders_
            /\ ShaderWriteUnchanged
            /\ pc' = [pc EXCEPT ![c] = "cp_insert"]
            /\ UNCHANGED <<frame, out>>
  /\ UNCHANGED <<translator, enumerator>>

\* new Pipeline, pipelines_.emplace, and the hand-over to the creation threads
\* or the creation on the calling thread.
ConfigurePipelineInsert(c, device_ok) ==
  LET id == AllocatePipeline
      inserted == [pipeline EXCEPT ![id] = NewPipeline(frame[c].description)]
  IN
  /\ pc[c] = "cp_insert"
  /\ ~crashed
  /\ FreeIds # {}
  /\ pipelines_' = pipelines_ \cup {id}
  /\ IF UseCreationThreads
       THEN /\ pipeline' = inserted
            /\ creation_queue_' = Append(creation_queue_, id)
            /\ creation_pc' \in CreationNotifyOne(creation_pc)
       ELSE /\ pipeline' = [inserted EXCEPT
                 ![id].state = CreateD3D12Pipeline(frame[c].description, device_ok),
                 ![id].created = @ + 1]
            /\ UNCHANGED <<creation_queue_, creation_pc>>
  /\ pc' = [pc EXCEPT ![c] = "cp_store"]
  /\ frame' = [frame EXCEPT ![c].new_pipeline = id]
  /\ UNCHANGED <<creation_thread_count, shaders_, current_pipeline_,
                 creation_threads_busy_, creation_completion_event_,
                 creation_completion_set_event_, creation_threads_shutdown_from_,
                 creation_local, storageVars, assert_failed, crashed, out, overlapped, calls>>
  /\ UNCHANGED <<translator, enumerator>>

\* Variant of PipelineStoredDescription: description_hash is left as
\* emplace_back() made it.
PipelineStoredDescriptionWithoutHash(hash, description) ==
  [description_hash |-> 0, description |-> description]

\* The entry of the pipeline write queue: the hash that ConfigurePipeline
\* computed for the lookup, and a copy of the description.
PipelineStoredDescription(hash, description) ==
  [description_hash |-> hash, description |-> description]

\* The append to storage_write_pipeline_queue_ and the return.
ConfigurePipelineStore(c) ==
  /\ pc[c] = "cp_store"
  /\ ~crashed
  /\ IF pipeline_storage_file_
       THEN /\ storage_write_pipeline_queue_' =
                 Append(storage_write_pipeline_queue_,
                        PipelineStoredDescription(frame[c].hash, frame[c].description))
            /\ pipeline_enqueued' = Append(pipeline_enqueued, frame[c].description)
            /\ pipeline_storage_file_flush_needed_' = TRUE
            /\ storage_pc' = StorageNotify(storage_pc)
            /\ assert_failed' = IF storage_write_thread_ THEN assert_failed
                                ELSE assert_failed \cup {"storage_write_thread_"}
       ELSE UNCHANGED <<storage_write_pipeline_queue_, pipeline_enqueued,
                        pipeline_storage_file_flush_needed_, storage_pc, assert_failed>>
  /\ current_pipeline_' = frame[c].new_pipeline
  /\ Return(c, CallResult(frame[c].description, "true", frame[c].new_pipeline,
                          TRUE, out[c].cause))
  /\ UNCHANGED <<creation_thread_count, shaders_, pipelines_, pipeline, creationVars,
                 storage_write_shader_queue_, shader_enqueued,
                 storage_write_thread_, storage_write_thread_shutdown_,
                 storage_write_flush_shaders_, storage_write_flush_pipelines_,
                 shader_storage_file_, pipeline_storage_file_,
                 shader_storage_file_flush_needed_,
                 storage_local, fileVars, crashed, overlapped, calls>>
  /\ UNCHANGED <<translator, enumerator>>

(***************************************************************************)
(* PipelineCache::CreationThread                                           *)
(***************************************************************************)
\* The critical section at the top of the loop.
CreationThreadDequeue(t) ==
  /\ t \in CreationThreads
  /\ creation_pc[t] = "lock"
  /\ ~crashed
  /\ IF t - 1 >= creation_threads_shutdown_from_ \/ creation_queue_ = <<>>
       THEN /\ IF creation_completion_set_event_ /\ creation_threads_busy_ = 0
                 THEN /\ creation_completion_set_event_' = FALSE
                      /\ creation_completion_event_' = TRUE
                 ELSE UNCHANGED <<creation_completion_set_event_,
                                  creation_completion_event_>>
            /\ creation_pc' = [creation_pc EXCEPT ![t] =
                 IF t - 1 >= creation_threads_shutdown_from_ THEN "done" ELSE "wait"]
            /\ UNCHANGED <<creation_queue_, creation_threads_busy_, creation_local>>
       ELSE /\ creation_local' = [creation_local EXCEPT ![t] = Front(creation_queue_)]
            /\ creation_queue_' = PopFront(creation_queue_)
            /\ creation_threads_busy_' = creation_threads_busy_ + 1
            /\ creation_pc' = [creation_pc EXCEPT ![t] = "create"]
            /\ UNCHANGED <<creation_completion_set_event_, creation_completion_event_>>
  /\ UNCHANGED <<creation_thread_count, cacheVars, creation_threads_shutdown_from_,
                 storageVars, assert_failed, crashed, callVars>>
  /\ UNCHANGED <<translator, enumerator>>

\* pipeline_to_create->state = CreateD3D12Pipeline(...), outside the lock.
CreationThreadCreate(t, device_ok) ==
  /\ t \in CreationThreads
  /\ creation_pc[t] = "create"
  /\ ~crashed
  /\ pipeline' = CreatePipelineState(creation_local[t], device_ok)
  /\ creation_pc' = [creation_pc EXCEPT ![t] = "decrement"]
  /\ UNCHANGED <<creation_thread_count, shaders_, pipelines_, current_pipeline_,
                 creation_queue_, creation_threads_busy_, creation_completion_event_,
                 creation_completion_set_event_, creation_threads_shutdown_from_,
                 creation_local, storageVars, assert_failed, crashed, callVars>>
  /\ UNCHANGED <<translator, enumerator>>

\* --creation_threads_busy_ under the lock.
CreationThreadDecrement(t) ==
  /\ t \in CreationThreads
  /\ creation_pc[t] = "decrement"
  /\ ~crashed
  /\ creation_threads_busy_' = creation_threads_busy_ - 1
  /\ creation_local' = [creation_local EXCEPT ![t] = NullPipeline]
  /\ creation_pc' = [creation_pc EXCEPT ![t] = "lock"]
  /\ UNCHANGED <<creation_thread_count, cacheVars, creation_queue_,
                 creation_completion_event_, creation_completion_set_event_,
                 creation_threads_shutdown_from_, storageVars, assert_failed,
                 crashed, callVars>>
  /\ UNCHANGED <<translator, enumerator>>

\* std::condition_variable::wait may return without a notification.
CreationThreadSpuriousWakeup(t) ==
  /\ t \in CreationThreads
  /\ creation_pc[t] = "wait"
  /\ ~crashed
  /\ creation_pc' = [creation_pc EXCEPT ![t] = "lock"]
  /\ UNCHANGED <<creation_thread_count, cacheVars, creation_queue_,
                 creation_threads_busy_, creation_completion_event_,
                 creation_completion_set_event_, creation_threads_shutdown_from_,
                 creation_local, storageVars, assert_failed, crashed, callVars>>
  /\ UNCHANGED <<translator, enumerator>>

(***************************************************************************)
(* PipelineCache::StorageWriteThread                                       *)
(***************************************************************************)
NoStoredDescription == [description_hash |-> 0, description |-> NoDescription]
StorageLocalInit ==
  [flush_shaders |-> FALSE, flush_pipelines |-> FALSE, shader |-> NoShader,
   write_pipeline |-> FALSE, pipeline_description |-> NoStoredDescription]

\* The record the thread writes for a shader: the header with the hash of the
\* microcode, then the microcode.
ShaderRecord(shader_hash) == [ucode_data_hash |-> shader_hash, ucode |-> shader_hash]

\* The top of the loop: the pending fflush calls, then the critical section.
StorageWriteThreadDequeue ==
  LET take_shader == storage_write_shader_queue_ # <<>>
      take_pipeline == storage_write_pipeline_queue_ # <<>>
      flush_shaders == ~take_shader /\ storage_write_flush_shaders_
      flush_pipelines == ~take_pipeline /\ storage_write_flush_pipelines_
  IN
  /\ storage_pc = "loop"
  /\ ~crashed
  /\ IF storage_write_thread_shutdown_
       THEN /\ storage_pc' = "done"
            /\ storage_local' = [storage_local EXCEPT !.flush_shaders = FALSE,
                                                      !.flush_pipelines = FALSE]
            /\ UNCHANGED <<storage_write_shader_queue_, storage_write_pipeline_queue_,
                           storage_write_flush_shaders_, storage_write_flush_pipelines_>>
       ELSE /\ storage_write_shader_queue_' =
                 IF take_shader THEN PopFront(storage_write_shader_queue_) ELSE <<>>
            /\ storage_write_pipeline_queue_' =
                 IF take_pipeline THEN PopFront(storage_write_pipeline_queue_) ELSE <<>>
            /\ storage_write_flush_shaders_' =
                 IF flush_shaders THEN FALSE ELSE storage_write_flush_shaders_
            /\ storage_write_flush_pipelines_' =
                 IF flush_pipelines THEN FALSE ELSE storage_write_flush_pipelines_
            /\ storage_local' =
                 [flush_shaders |-> flush_shaders,
                  flush_pipelines |-> flush_pipelines,
                  shader |-> IF take_shader THEN Front(storage_write_shader_queue_)
                             ELSE NoShader,
                  write_pipeline |-> take_pipeline,
                  pipeline_description |->
                    IF take_pipeline THEN Front(storage_write_pipeline_queue_)
                    ELSE NoStoredDescription]
            /\ storage_pc' = IF take_shader \/ take_pipeline THEN "write" ELSE "wait"
  /\ UNCHANGED <<creation_thread_count, cacheVars, creationVars, shader_enqueued,
                 pipeline_enqueued, storage_write_thread_,
                 storage_write_thread_shutdown_, shader_storage_file_,
                 pipeline_storage_file_, shader_storage_file_flush_needed_,
                 pipeline_storage_file_flush_needed_, fileVars,
                 assert_failed, crashed, callVars>>
  /\ UNCHANGED <<translator, enumerator>>

\* The fwrite calls, outside the lock.
StorageWriteThreadWrite ==
  /\ storage_pc = "write"
  /\ ~crashed
  /\ IF storage_local.shader # NoShader
       THEN /\ shader_file' = [shader_file EXCEPT !.records =
                                 Append(@, ShaderRecord(storage_local.shader))]
            /\ shader_appended' = Append(shader_appended, storage_local.shader)
       ELSE UNCHANGED <<shader_file, shader_appended>>
  /\ IF storage_local.write_pipeline
       THEN /\ pipeline_file' = [pipeline_file EXCEPT !.records =
                                   Append(@, storage_local.pipeline_description)]
            /\ pipeline_appended' =
                 Append(pipeline_appended, storage_local.pipeline_description.description)
       ELSE UNCHANGED <<pipeline_file, pipeline_appended>>
  /\ storage_local' = [storage_local EXCEPT !.shader = NoShader,
                                            !.write_pipeline = FALSE,
                                            !.pipeline_description = NoStoredDescription]
  /\ storage_pc' = "loop"
  /\ UNCHANGED <<creation_thread_count, cacheVars, creationVars, storageQueueVars,
                 storageFlagVars, assert_failed, crashed, callVars>>
  /\ UNCHANGED <<translator, enumerator>>

\* std::condition_variable::wait may return without a notification.
StorageWriteThreadSpuriousWakeup ==
  /\ storage_pc = "wait"
  /\ ~crashed
  /\ storage_pc' = "loop"
  /\ UNCHANGED <<creation_thread_count, cacheVars, creationVars, storageQueueVars,
                 storageFlagVars, storage_local, fileVars, assert_failed, crashed,
                 callVars>>
  /\ UNCHANGED <<translator, enumerator>>

(***************************************************************************)
(* PipelineCache::CreateQueuedPipelinesOnProcessorThread, and the wait on  *)
(* creation_completion_event_ that EndSubmission, ClearCache and           *)
(* InitializeShaderStorage share.                                          *)
(***************************************************************************)
\* One iteration of the loop; the assertion is evaluated on entry.
CreateQueuedPipelinesOnProcessorThread(c, device_ok) ==
  /\ pc[c] = "drain"
  /\ ~crashed
  /\ assert_failed' = IF creation_thread_count = 0
                        THEN assert_failed \cup {"creation_threads_.empty()"}
                        ELSE assert_failed
  /\ IF creation_queue_ = <<>>
       THEN /\ pc' = [pc EXCEPT ![c] = frame[c].return_to]
            /\ UNCHANGED <<creation_queue_, pipeline>>
       ELSE /\ creation_queue_' = PopFront(creation_queue_)
            /\ pipeline' = CreatePipelineState(Front(creation_queue_), device_ok)
            /\ UNCHANGED pc
  /\ UNCHANGED <<creation_thread_count, shaders_, pipelines_, current_pipeline_,
                 creation_threads_busy_, creation_completion_event_,
                 creation_completion_set_event_, creation_threads_shutdown_from_,
                 creation_pc, creation_local, storageVars, crashed, frame, out,
                 overlapped, calls>>
  /\ UNCHANGED <<translator, enumerator>>

\* Variant of AwaitCreationCompletion: EndSubmission does not wait.
NoAwaitCreationCompletion == FALSE

\* await_creation_completion_event = creation_threads_busy_ != 0.
AwaitCreationCompletion == creation_threads_busy_ # 0

\* The critical section that requests the completion event, and notify_one.
RequestCompletionEvent(await) ==
  IF await
    THEN /\ creation_completion_event_' = FALSE
         /\ creation_completion_set_event_' = TRUE
         /\ creation_pc' \in CreationNotifyOne(creation_pc)
    ELSE UNCHANGED <<creation_completion_event_, creation_completion_set_event_,
                     creation_pc>>

\* xe::threading::Wait(creation_completion_event_.get(), false).
WaitCreationCompletion(c) ==
  /\ pc[c] = "wait_event"
  /\ ~crashed
  /\ creation_completion_event_
  /\ IF frame[c].return_to = "idle"
       THEN Return(c, [NoResult EXCEPT !.op = frame[c].op])
       ELSE /\ pc' = [pc EXCEPT ![c] = frame[c].return_to]
            /\ UNCHANGED <<frame, out>>
  /\ UNCHANGED <<creation_thread_count, cacheVars, creationVars, storageVars,
                 assert_failed, crashed, overlapped, calls>>
  /\ UNCHANGED <<translator, enumerator>>

(***************************************************************************)
(* PipelineCache::EndSubmission                                            *)
(***************************************************************************)
EndSubmission(c) ==
  /\ CanCall(c)
  /\ Begin(c)
  /\ IF shader_storage_file_flush_needed_ \/ pipeline_storage_file_flush_needed_
       THEN /\ storage_write_flush_shaders_' =
                 (storage_write_flush_shaders_ \/ shader_storage_file_flush_needed_)
            /\ storage_write_flush_pipelines_' =
                 (storage_write_flush_pipelines_ \/ pipeline_storage_file_flush_needed_)
            /\ storage_pc' = StorageNotify(storage_pc)
            /\ shader_storage_file_flush_needed_' = FALSE
            /\ pipeline_storage_file_flush_needed_' = FALSE
       ELSE UNCHANGED <<storage_write_flush_shaders_, storage_write_flush_pipelines_,
                        storage_pc, shader_storage_file_flush_needed_,
                        pipeline_storage_file_flush_needed_>>
  /\ IF creation_thread_count # 0
       THEN /\ pc' = [pc EXCEPT ![c] = "drain"]
            /\ frame' = [frame EXCEPT ![c] =
                 [EmptyFrame EXCEPT !.op = "EndSubmission", !.return_to = "es_await"]]
            /\ out' = [out EXCEPT ![c] = NoResult]
       ELSE Return(c, [NoResult EXCEPT !.op = "EndSubmission"])
  /\ UNCHANGED <<creation_thread_count, cacheVars, creationVars, storageQueueVars,
                 storage_write_thread_, storage_write_thread_shutdown_,
                 shader_storage_file_, pipeline_storage_file_,
                 storage_local, fileVars, assert_failed, crashed>>
  /\ UNCHANGED <<translator, enumerator>>

\* The critical section after the queue was drained.
EndSubmissionAwait(c) ==
  /\ pc[c] = "es_await"
  /\ ~crashed
  /\ RequestCompletionEvent(AwaitCreationCompletion)
  /\ IF AwaitCreationCompletion
       THEN /\ pc' = [pc EXCEPT ![c] = "wait_event"]
            /\ frame' = [frame EXCEPT ![c].return_to = "idle"]
            /\ UNCHANGED out
       ELSE Return(c, [NoResult EXCEPT !.op = "EndSubmission"])
  /\ UNCHANGED <<creation_thread_count, cacheVars, creation_queue_,
                 creation_threads_busy_, creation_threads_shutdown_from_,
                 creation_local, storageVars, assert_failed, crashed, overlapped, calls>>
  /\ UNCHANGED <<translator, enumerator>>

(***************************************************************************)
(* PipelineCache::ShutdownShaderStorage                                    *)
(***************************************************************************)
\* storage_write_thread_shutdown_ = true under the lock, then notify_all.
RequestStorageShutdown ==
  IF storage_write_thread_
    THEN /\ storage_write_thread_shutdown_' = TRUE
         /\ storage_pc' = StorageNotify(storage_pc)
    ELSE UNCHANGED <<storage_write_thread_shutdown_, storage_pc>>

ShutdownShaderStorage(c) ==
  /\ CanCall(c)
  /\ Begin(c)
  /\ RequestStorageShutdown
  /\ pc' = [pc EXCEPT ![c] = "ss_join"]
  /\ frame' = [frame EXCEPT ![c] =
       [EmptyFrame EXCEPT !.op = "ShutdownShaderStorage", !.return_to = "idle"]]
  /\ out' = [out EXCEPT ![c] = NoResult]
  /\ UNCHANGED <<creation_thread_count, cacheVars, creationVars, storageQueueVars,
                 storage_write_thread_, storage_write_flush_shaders_,
                 storage_write_flush_pipelines_, shader_storage_file_,
                 pipeline_storage_file_, shader_storage_file_flush_needed_,
                 pipeline_storage_file_flush_needed_,
                 storage_local, fileVars, assert_failed, crashed>>
  /\ UNCHANGED <<translator, enumerator>>

\* Variant of StorageThreadJoined: the files are closed without waiting for
\* the storage write thread.
StorageThreadNotAwaited == TRUE

\* xe::threading::Wait(storage_write_thread_.get(), false) returns once the
\* thread function has returned; there is nothing to wait for without a thread.
StorageThreadJoined == storage_write_thread_ => storage_pc = "done"

\* The join of the storage write thread, the clearing of the write queues and
\* the closing of the files.
ShutdownShaderStorageJoin(c) ==
  /\ pc[c] = "ss_join"
  /\ ~crashed
  /\ StorageThreadJoined
  /\ storage_write_thread_' = FALSE
  /\ storage_pc' = "none"
  /\ storage_write_shader_queue_' = <<>>
  /\ storage_write_pipeline_queue_' = <<>>
  /\ shader_storage_file_' = FALSE
  /\ pipeline_storage_file_' = FALSE
  /\ shader_storage_file_flush_needed_' =
       IF shader_storage_file_ THEN FALSE ELSE shader_storage_file_flush_needed_
  /\ pipeline_storage_file_flush_needed_' =
       IF pipeline_storage_file_ THEN FALSE ELSE pipeline_storage_file_flush_needed_
  /\ IF frame[c].return_to = "idle"
       THEN Return(c, [NoResult EXCEPT !.op = frame[c].op])
       ELSE /\ pc' = [pc EXCEPT ![c] = frame[c].return_to]
            /\ UNCHANGED <<frame, out>>
  /\ UNCHANGED <<creation_thread_count, cacheVars, creationVars, shader_enqueued,
                 pipeline_enqueued, storage_write_thread_shutdown_,
                 storage_write_flush_shaders_, storage_write_flush_pipelines_, storage_local, fileVars, assert_failed, crashed,
                 overlapped, calls>>
  /\ UNCHANGED <<translator, enumerator>>

(***************************************************************************)
(* PipelineCache::ClearCache                                               *)
(***************************************************************************)
ClearCache(c, shutting_down) ==
  /\ CanCall(c)
  /\ Begin(c)
  /\ RequestStorageShutdown
  /\ pc' = [pc EXCEPT ![c] = "ss_join"]
  /\ frame' = [frame EXCEPT ![c] =
       [EmptyFrame EXCEPT !.op = "ClearCache",
                          !.shutting_down = shutting_down,
                          !.reinitialize = (~shutting_down /\ storage_write_thread_),
                          !.return_to = "cc_queue"]]
  /\ out' = [out EXCEPT ![c] = NoResult]
  /\ UNCHANGED <<creation_thread_count, cacheVars, creationVars, storageQueueVars,
                 storage_write_thread_, storage_write_flush_shaders_,
                 storage_write_flush_pipelines_, shader_storage_file_,
                 pipeline_storage_file_, shader_storage_file_flush_needed_,
                 pipeline_storage_file_flush_needed_,
                 storage_local, fileVars, assert_failed, crashed>>
  /\ UNCHANGED <<translator, enumerator>>

\* Variant of ClearCacheAwait: ClearCache does not wait.
ClearCacheNoAwait == FALSE

\* ClearCache waits for the creation threads when one of them is busy.
ClearCacheAwait == creation_threads_busy_ # 0

\* current_pipeline_ = nullptr, and the critical section that empties the
\* creation queue.
ClearCacheQueue(c) ==
  /\ pc[c] = "cc_queue"
  /\ ~crashed
  /\ current_pipeline_' = NullPipeline
  /\ IF creation_thread_count # 0
       THEN /\ creation_queue_' = <<>>
            /\ RequestCompletionEvent(ClearCacheAwait)
            /\ pc' = [pc EXCEPT ![c] =
                 IF ClearCacheAwait THEN "wait_event" ELSE "cc_destroy"]
            /\ frame' = [frame EXCEPT ![c].return_to =
                 IF ClearCacheAwait THEN "cc_destroy" ELSE @]
       ELSE /\ pc' = [pc EXCEPT ![c] = "cc_destroy"]
            /\ UNCHANGED <<creation_queue_, creation_completion_event_,
                           creation_completion_set_event_, creation_pc, frame>>
  /\ UNCHANGED <<creation_thread_count, shaders_, pipelines_, pipeline,
                 creation_threads_busy_, creation_threads_shutdown_from_,
                 creation_local, storageVars, assert_failed, crashed, out, overlapped, calls>>
  /\ UNCHANGED <<translator, enumerator>>

\* it.second->state->Release() dereferences state.
ReleaseDereferencesNull == \E id \in pipelines_ : pipeline[id].state = "null"

\* The destruction of all pipelines and all shaders. Calling Release through a
\* null state pointer ends the process.
ClearCacheDestroy(c) ==
  /\ pc[c] = "cc_destroy"
  /\ ~crashed
  /\ IF ReleaseDereferencesNull
       THEN /\ crashed' = TRUE
            /\ UNCHANGED <<shaders_, pipelines_, pipeline, pc, frame, out>>
       ELSE /\ UNCHANGED crashed
            /\ pipeline' = [id \in PipelineIds |->
                 IF id \in pipelines_ THEN FreePipeline ELSE pipeline[id]]
            /\ pipelines_' = {}
            /\ shaders_' = [h \in ShaderHashes |-> AbsentShader]
            /\ IF frame[c].reinitialize
                 THEN /\ pc' = [pc EXCEPT ![c] = "is_shaders"]
                      /\ frame' = [frame EXCEPT ![c].blocking = FALSE]
                      /\ UNCHANGED out
                 ELSE IF frame[c].op = "Shutdown"
                   THEN /\ pc' = [pc EXCEPT ![c] = "sd_threads"]
                        /\ UNCHANGED <<frame, out>>
                   ELSE Return(c, [NoResult EXCEPT !.op = "ClearCache"])
  /\ UNCHANGED <<creation_thread_count, current_pipeline_, creationVars, storageVars,
                 assert_failed, overlapped, calls>>
  /\ UNCHANGED <<translator, enumerator>>

(***************************************************************************)
(* PipelineCache::InitializeShaderStorage                                  *)
(***************************************************************************)
\* A storage file: whether it starts with the magic and version of this build,
\* and the records after the header.
\* The bytes after the last complete record: none, a part of a shader header
\* ("header"), a shader header with a part of its microcode ("ucode"), or a
\* part of a stored pipeline description ("description").
NoTail == [kind |-> "none", ucode_data_hash |-> NoShader]
EmptyFile == [header |-> FALSE, records |-> <<>>, tail |-> NoTail]
\* TruncateStdioFile(file, 0) followed by the fwrite of the header.
FileWithHeader == [header |-> TRUE, records |-> <<>>, tail |-> NoTail]
\* Microcode whose XXH64 is not the hash of any shader of the model.
CorruptUcode == 0

\* The check of a shader record: XXH64 of the microcode read from the file
\* against the hash in the record header.
ShaderRecordValid(record) == record.ucode_data_hash = record.ucode
\* The check of a pipeline record: XXH64 of the description against
\* description_hash.
PipelineRecordValid(record) ==
  DescriptionHash(record.description) = record.description_hash

\* Variant of ShaderKnown: every record makes a new shader object.
ShaderNeverKnown(shaders, shader_hash) == FALSE

\* shaders_.find(shader_header.ucode_data_hash) != shaders_.end()
ShaderKnown(shaders, shader_hash) == shaders[shader_hash].present

\* The read loop over the complete records of the shader log. Gives the
\* dictionary with the shaders it created, their hashes (all of them are handed
\* to the translation threads), the number of records counted into
\* shader_storage_valid_bytes, and whether the loop ran to the end of the
\* complete records. A record whose hash is in the dictionary is passed over
\* with Seek and counted as valid without reading its microcode.
RECURSIVE ReplayShaderRecords(_, _, _, _)
ReplayShaderRecords(records, i, shaders, created) ==
  IF i > Len(records)
    THEN [shaders |-> shaders, created |-> created, valid |-> Len(records),
          at_end |-> TRUE]
  ELSE IF ShaderKnown(shaders, records[i].ucode_data_hash)
    THEN ReplayShaderRecords(records, i + 1, shaders, created)
  ELSE IF ~ShaderRecordValid(records[i])
    THEN [shaders |-> shaders, created |-> created, valid |-> i - 1,
          at_end |-> FALSE]
  ELSE ReplayShaderRecords(
         records, i + 1,
         [shaders EXCEPT ![records[i].ucode_data_hash] = NewShader],
         created \cup {records[i].ucode_data_hash})

\* The iteration that meets the bytes after the last complete record. The fread
\* of a partial header fails, and so does the fread of partial microcode. When
\* the hash of the header is in the dictionary the microcode is not read:
\* xe::filesystem::Seek moves past it, and when it reports success the record
\* is counted as valid, so that TruncateStdioFile is given a length beyond the
\* end of the file and the partial record stays as a record of junk.
ShaderLogAfterReplay(file, replayed, seek_ok) ==
  LET kept == SubSeq(file.records, 1, replayed.valid)
      hash == file.tail.ucode_data_hash
  IN
  IF /\ replayed.at_end
     /\ file.tail.kind = "ucode"
     /\ ShaderKnown(replayed.shaders, hash)
     /\ seek_ok
    THEN [header |-> TRUE,
          records |-> Append(kept, [ucode_data_hash |-> hash, ucode |-> CorruptUcode]),
          tail |-> NoTail]
    ELSE [header |-> TRUE, records |-> kept, tail |-> NoTail]

\* Translation threads are created while there are fewer of them than
\* min(busy threads + queued shaders + 1, logical_processor_count - 1).
ShaderTranslationThreadsNeeded(busy, queued, logical_processor_count) ==
  IF busy + queued + 1 < logical_processor_count - 1
    THEN busy + queued + 1
    ELSE logical_processor_count - 1

\* The dictionary after the read loop and the join of the translation
\* threads: a shader whose translation failed is erased and deleted. Without
\* any translation thread the shaders that were created stay as they are.
ShadersAfterReplay(replayed, translatable, logical_processor_count) ==
  [h \in ShaderHashes |->
     IF h \in replayed.created
       THEN IF ShaderTranslationThreadsNeeded(0, 0, logical_processor_count) = 0
              THEN NewShader
            ELSE IF TranslateShader(NewShader, h \in translatable).result
              THEN TranslateShader(NewShader, h \in translatable).shader
              ELSE AbsentShader
       ELSE replayed.shaders[h]]

\* The loop that launches additional creation threads runs while
\* creation_threads_.size() < creation_thread_original_count.
CreationThreadsAfterLaunch(size, original_count) ==
  IF size < original_count THEN original_count ELSE size

\* Descriptions that the lookup structure can hold after a replay of the
\* pipeline log, counting what may still reach the file.
FutureDescriptions ==
  {pipeline[id].description : id \in pipelines_}
    \cup {pipeline_file.records[i].description : i \in 1..Len(pipeline_file.records)}
    \cup {storage_write_pipeline_queue_[i].description :
            i \in 1..Len(storage_write_pipeline_queue_)}
    \cup (IF storage_local.write_pipeline
            THEN {storage_local.pipeline_description.description} ELSE {})

InitializeShaderStorage(c, blocking) ==
  /\ CanCall(c)
  /\ Cardinality(FutureDescriptions) <= MaxPipelines
  /\ Begin(c)
  /\ RequestStorageShutdown
  /\ pc' = [pc EXCEPT ![c] = "ss_join"]
  /\ frame' = [frame EXCEPT ![c] =
       [EmptyFrame EXCEPT !.op = "InitializeShaderStorage",
                          !.blocking = blocking,
                          !.return_to = "is_shaders"]]
  /\ out' = [out EXCEPT ![c] = NoResult]
  /\ UNCHANGED <<creation_thread_count, cacheVars, creationVars, storageQueueVars,
                 storage_write_thread_, storage_write_flush_shaders_,
                 storage_write_flush_pipelines_, shader_storage_file_,
                 pipeline_storage_file_, shader_storage_file_flush_needed_,
                 pipeline_storage_file_flush_needed_,
                 storage_local, fileVars, assert_failed, crashed>>
  /\ UNCHANGED <<translator, enumerator>>

\* The shader log: open, replay with translation, truncate. Then the pipeline
\* log: open, check the header and read the records.
InitializeShaderStorageShaders(c, translatable, logical_processor_count, seek_ok) ==
  LET replayed == ReplayShaderRecords(shader_file.records, 1, shaders_, {})
      read_pipelines == pipeline_file.header /\ pipeline_file.records # <<>>
  IN
  /\ pc[c] = "is_shaders"
  /\ ~crashed
  /\ shader_storage_file_' = TRUE
  /\ pipeline_storage_file_' = TRUE
  /\ shader_storage_file_flush_needed_' = FALSE
  /\ pipeline_storage_file_flush_needed_' = FALSE
  /\ IF shader_file.header
       THEN /\ shaders_' = ShadersAfterReplay(replayed, translatable,
                                               logical_processor_count)
            /\ shader_file' = ShaderLogAfterReplay(shader_file, replayed, seek_ok)
       ELSE /\ shader_file' = FileWithHeader
            /\ UNCHANGED shaders_
  /\ creation_thread_count' =
       IF read_pipelines
         THEN CreationThreadsAfterLaunch(creation_thread_count, creation_thread_count)
         ELSE creation_thread_count
  /\ frame' = [frame EXCEPT ![c].index = 1,
                            ![c].valid = 0,
                            ![c].original_count = creation_thread_count,
                            ![c].shader_log = shader_file,
                            ![c].shaders_before = shaders_,
                            ![c].created = IF shader_file.header
                                             THEN replayed.created ELSE {}]
  /\ pc' = [pc EXCEPT ![c] = IF read_pipelines THEN "is_pipelines" ELSE "is_finish"]
  /\ UNCHANGED <<pipelines_, pipeline, current_pipeline_, creationVars,
                 storageQueueVars, storage_write_thread_,
                 storage_write_thread_shutdown_, storage_write_flush_shaders_,
                 storage_write_flush_pipelines_,
                 storageThreadVars, pipeline_file, shader_appended,
                 pipeline_appended, assert_failed, crashed, out, overlapped, calls>>
  /\ UNCHANGED <<translator, enumerator>>

\* Variant of ReplayShadersUsable: only the vertex shader is looked up.
ReplayVertexShaderUsable(description) ==
  /\ description.vertex_shader_hash \in ShaderHashes
  /\ shaders_[description.vertex_shader_hash].present
  /\ shaders_[description.vertex_shader_hash].is_valid

\* The shaders of a stored description are in the dictionary and valid.
ReplayShadersUsable(description) ==
  /\ description.vertex_shader_hash \in ShaderHashes
  /\ shaders_[description.vertex_shader_hash].present
  /\ shaders_[description.vertex_shader_hash].is_valid
  /\ description.pixel_shader_hash # NoShader =>
       /\ shaders_[description.pixel_shader_hash].present
       /\ shaders_[description.pixel_shader_hash].is_valid

\* Variant of ReplayPipelineFound: the replay does not skip known pipelines.
ReplayPipelineNeverFound(description) == FALSE

\* Skip already known pipelines: the lookup of the replay loop.
ReplayPipelineFound(description) == FindPipeline(description) # NullPipeline

\* One iteration of the loop over the stored pipeline descriptions.
InitializeShaderStoragePipeline(c, root_signature_ok, device_ok) ==
  LET records == pipeline_file.records
      i == frame[c].index
      description == records[i].description
      id == AllocatePipeline
      inserted == [pipeline EXCEPT ![id] = NewPipeline(description)]
      leave(valid) ==
        /\ pc' = [pc EXCEPT ![c] = "drain"]
        /\ frame' = [frame EXCEPT ![c].valid = valid, ![c].return_to = "is_finish"]
        /\ UNCHANGED <<pipelines_, pipeline, creation_queue_, creation_pc>>
      continue ==
        /\ frame' = [frame EXCEPT ![c].index = i + 1]
        /\ UNCHANGED pc
  IN
  /\ pc[c] = "is_pipelines"
  /\ ~crashed
  /\ IF i > Len(records) THEN leave(Len(records))
     ELSE IF ~PipelineRecordValid(records[i]) THEN leave(i - 1)
     ELSE IF \/ ReplayPipelineFound(description)
             \/ ~ReplayShadersUsable(description)
             \/ ~root_signature_ok
       THEN /\ continue
            /\ UNCHANGED <<pipelines_, pipeline, creation_queue_, creation_pc>>
     ELSE /\ FreeIds # {}
          /\ continue
          /\ pipelines_' = pipelines_ \cup {id}
          /\ IF UseCreationThreads
               THEN /\ pipeline' = inserted
                    /\ creation_queue_' = Append(creation_queue_, id)
                    /\ creation_pc' \in CreationNotifyOne(creation_pc)
               ELSE /\ pipeline' = [inserted EXCEPT
                         ![id].state = CreateD3D12Pipeline(description, device_ok),
                         ![id].created = @ + 1]
                    /\ UNCHANGED <<creation_queue_, creation_pc>>
  /\ UNCHANGED <<creation_thread_count, shaders_, current_pipeline_,
                 creation_threads_busy_, creation_completion_event_,
                 creation_completion_set_event_, creation_threads_shutdown_from_,
                 creation_local, storageVars, assert_failed, crashed, out, overlapped, calls>>
  /\ UNCHANGED <<translator, enumerator>>

\* After CreateQueuedPipelinesOnProcessorThread: the additional creation
\* threads are shut down when there are any (with the wait on the completion
\* event of a blocking call), the pipeline log is truncated to its valid
\* records, and the storage write thread is started.
InitializeShaderStorageFinish(c) ==
  LET additional == creation_thread_count > frame[c].original_count
      await == additional /\ frame[c].blocking /\ creation_threads_busy_ # 0
  IN
  /\ pc[c] = "is_finish"
  /\ ~crashed
  /\ creation_thread_count' = frame[c].original_count
  /\ RequestCompletionEvent(await)
  /\ pipeline_file' = IF pipeline_file.header
                        THEN [pipeline_file EXCEPT !.records =
                                SubSeq(@, 1, frame[c].valid),
                                                   !.tail = NoTail]
                        ELSE FileWithHeader
  /\ storage_write_flush_shaders_' = FALSE
  /\ storage_write_flush_pipelines_' = FALSE
  /\ storage_write_thread_shutdown_' = FALSE
  /\ storage_write_thread_' = TRUE
  /\ storage_pc' = "loop"
  /\ storage_local' = StorageLocalInit
  /\ shader_enqueued' = <<>>
  /\ pipeline_enqueued' = <<>>
  /\ shader_appended' = <<>>
  /\ pipeline_appended' = <<>>
  /\ IF await
       THEN /\ pc' = [pc EXCEPT ![c] = "wait_event"]
            /\ frame' = [frame EXCEPT ![c].return_to = "idle"]
            /\ UNCHANGED out
       ELSE Return(c, [NoResult EXCEPT !.op = frame[c].op])
  /\ UNCHANGED <<cacheVars, creation_queue_, creation_threads_busy_,
                 creation_threads_shutdown_from_, creation_local,
                 storage_write_shader_queue_, storage_write_pipeline_queue_,
                 shader_storage_file_, pipeline_storage_file_,
                 shader_storage_file_flush_needed_,
                 pipeline_storage_file_flush_needed_, shader_file,
                 assert_failed, crashed, overlapped, calls>>
  /\ UNCHANGED <<translator, enumerator>>

(***************************************************************************)
(* The logs a previous run of the emulator left behind.                    *)
(***************************************************************************)
StoredDescription(description) ==
  [description_hash |-> DescriptionHash(description), description |-> description]
DrawDescription ==
  [vertex_shader_hash |-> 1, pixel_shader_hash |-> 2, fixed_function |-> 0]
\* No files yet, or the logs of a run that stored the same description twice.
InitialLogs ==
  { [shaders |-> EmptyFile, pipelines |-> EmptyFile],
    [shaders |-> [header |-> TRUE, records |-> <<ShaderRecord(1), ShaderRecord(2)>>,
                  tail |-> NoTail],
     pipelines |-> [header |-> TRUE,
                    records |-> <<StoredDescription(DrawDescription),
                                  StoredDescription(DrawDescription)>>,
                    tail |-> NoTail]] }

(***************************************************************************)
(* DxbcShaderTranslator: the fields used by the system temporary register  *)
(* allocator and by LoadOperand and StoreResult.                           *)
(***************************************************************************)
\* A uint32_t is held as the 32 bit two's complement integer of the same bits
\* (integers here are 32 bits wide): sums and differences are
\* the same bits as the code's, and a value of 2^31 or more is read as negative.
UINT32_MAX == 0 - 1
kBindingIndexUnallocated == UINT32_MAX

\* Shader::kMaxMemExports, and the eM# data registers of one export.
kMaxMemExports == 16
MemExportData == 0..4

\* No call of the translator has been made.
NoTranslatorCall == [op |-> "none"]

\* The emitted code has not been run.
\* No translation has reached PostTranslation.
NoPostTranslation == [dxbc_shader |-> <<>>, threads |-> <<>>, entered |-> <<>>, reached |-> <<>>, calls |-> 0]
NoContainer == [state |-> "none", shader_object_ |-> <<>>, blob_offset_position_dwords |-> 0, blob_position_dwords |-> 0, returned |-> <<>>]
NoLayouts == [bindless_resources_used_ |-> FALSE, texture_binding_layout_map_ |-> <<>>, texture_binding_layouts_ |-> <<>>, bindless_sampler_layout_map_ |-> <<>>, bindless_sampler_layouts_ |-> <<>>, translated |-> <<>>, translations |-> 0]
NoRun == [rf |-> <<>>, frames |-> <<>>, started |-> 0, skipped |-> FALSE, last |-> [event |-> "none"]]

\* The value of cf_exec_bool_constant_ when no conditional exec is open.
kCfExecBoolConstantNone == UINT32_MAX

\* The translator after Reset(), for a shader of the given properties.
\* checked_build tells whether the build evaluates assert_true and its
\* relatives; blocks is the history of the register blocks handed out by
\* PushSystemTemp and not yet released, code holds the instructions emitted by
\* the last call, pending the arguments of a call about to be made. program
\* is the control flow of the guest shader still to be translated, phase the
\* part of the translation the translator is in, translation_errors the
\* messages passed to EmitTranslationError, popped_beyond whether a
\* PopSystemTemp was called for more registers than were held, trace the
\* handler calls of the translation with the code each of them emitted, run
\* the registers and the guest loops of a run of emitted code.
TranslatorFor(shader) ==
  [ checked_build |-> shader.checked_build,
    is_depth_only_pixel_shader_ |-> shader.is_depth_only_pixel_shader_,
    uses_register_dynamic_addressing |-> shader.uses_register_dynamic_addressing,
    register_count |-> shader.register_count,
    float_constants |-> shader.float_constants,
    float_dynamic_addressing |-> shader.float_dynamic_addressing,
    edram_rov_used_ |-> shader.edram_rov_used_,
    cbuffer_count_ |-> 1,
    cbuffer_index_float_constants_ |-> kBindingIndexUnallocated,
    system_temp_count_current_ |-> 0,
    system_temp_count_max_ |-> 0,
    memexport_alloc_current_count_ |-> 0,
    system_temps_memexport_address_ |-> [i \in 0..(kMaxMemExports - 1) |-> UINT32_MAX],
    system_temps_memexport_data_ |->
      [i \in 0..(kMaxMemExports - 1) |-> [j \in MemExportData |-> UINT32_MAX]],
    depth_stencil_system_temp_used |-> shader.depth_stencil_system_temp_used,
    is_pixel_shader |-> shader.is_pixel_shader,
    host_vertex_shader_type |-> shader.host_vertex_shader_type,
    writes_color_targets |-> shader.writes_color_targets,
    writes_depth |-> shader.writes_depth,
    rov_depth_stencil_early |-> shader.rov_depth_stencil_early,
    memexport_eM_written |-> shader.memexport_eM_written,
    use_switch_for_control_flow |-> shader.use_switch_for_control_flow,
    program |-> shader.program,
    cbuffer_index_bool_loop_constants_ |-> kBindingIndexUnallocated,
    cf_exec_bool_constant_ |-> kCfExecBoolConstantNone,
    cf_exec_bool_constant_condition_ |-> FALSE,
    cf_exec_predicated_ |-> FALSE,
    cf_exec_predicate_condition_ |-> FALSE,
    cf_exec_predicate_written_ |-> FALSE,
    cf_instruction_predicate_if_open_ |-> FALSE,
    cf_instruction_predicate_condition_ |-> FALSE,
    system_temp_position_ |-> UINT32_MAX,
    system_temp_point_size_edge_flag_kill_vertex_ |-> UINT32_MAX,
    system_temp_rov_params_ |-> UINT32_MAX,
    system_temp_depth_stencil_ |-> UINT32_MAX,
    system_temps_color_ |-> [i \in 0..3 |-> UINT32_MAX],
    system_temp_memexport_written_ |-> UINT32_MAX,
    system_temp_result_ |-> UINT32_MAX,
    system_temp_ps_pc_p0_a0_ |-> UINT32_MAX,
    system_temp_aL_ |-> UINT32_MAX,
    system_temp_loop_count_ |-> UINT32_MAX,
    system_temp_grad_h_lod_ |-> UINT32_MAX,
    system_temp_grad_v_ |-> UINT32_MAX,
    shader_code_ |-> <<>>,
    translation_errors |-> <<>>,
    phase |-> "reset",
    popped_beyond |-> FALSE,
    trace |-> <<>>,
    run |-> NoRun,
    translations |-> [shader |-> shader, queue |-> <<>>, outputs |-> <<>>],
    post |-> NoPostTranslation,
    container |-> NoContainer,
    layouts |-> NoLayouts,
    asserted |-> FALSE,
    blocks |-> <<>>,
    code |-> <<>>,
    pending |-> NoTranslatorCall,
    call |-> NoTranslatorCall ]

\* A vertex shader without registers and without float constants.
EmptyShader ==
  [ checked_build |-> FALSE,
    is_depth_only_pixel_shader_ |-> FALSE,
    uses_register_dynamic_addressing |-> FALSE,
    register_count |-> 0,
    float_constants |-> {},
    float_dynamic_addressing |-> FALSE,
    edram_rov_used_ |-> FALSE,
    depth_stencil_system_temp_used |-> FALSE,
    is_pixel_shader |-> FALSE,
    host_vertex_shader_type |-> "kVertex",
    writes_color_targets |-> 0,
    writes_depth |-> FALSE,
    rov_depth_stencil_early |-> FALSE,
    memexport_eM_written |-> [i \in 0..(kMaxMemExports - 1) |-> 0],
    use_switch_for_control_flow |-> TRUE,
    program |-> <<>> ]

ResetTranslator == TranslatorFor(EmptyShader)

(***************************************************************************)
(* The state after the constructor and Initialize().                       *)
(***************************************************************************)
PipelineCacheStartWithThreads(logs, thread_counts) ==
  /\ creation_thread_count \in thread_counts
  /\ shaders_ = [h \in ShaderHashes |-> AbsentShader]
  /\ pipelines_ = {}
  /\ pipeline = [id \in PipelineIds |-> FreePipeline]
  /\ current_pipeline_ = NullPipeline
  /\ creation_queue_ = <<>>
  /\ creation_threads_busy_ = 0
  /\ creation_completion_event_ = TRUE
  /\ creation_completion_set_event_ = FALSE
  /\ creation_threads_shutdown_from_ = SIZE_MAX
  /\ creation_pc = [t \in CreationThreadIds |->
                      IF t <= creation_thread_count THEN "lock" ELSE "none"]
  /\ creation_local = [t \in CreationThreadIds |-> NullPipeline]
  /\ storage_write_thread_ = FALSE
  /\ storage_write_thread_shutdown_ = FALSE
  /\ storage_write_shader_queue_ = <<>>
  /\ storage_write_pipeline_queue_ = <<>>
  /\ storage_write_flush_shaders_ = FALSE
  /\ storage_write_flush_pipelines_ = FALSE
  /\ shader_storage_file_ = FALSE
  /\ pipeline_storage_file_ = FALSE
  /\ shader_storage_file_flush_needed_ = FALSE
  /\ pipeline_storage_file_flush_needed_ = FALSE
  /\ storage_pc = "none"
  /\ storage_local = StorageLocalInit
  /\ shader_file = logs.shaders
  /\ pipeline_file = logs.pipelines
  /\ shader_enqueued = <<>>
  /\ pipeline_enqueued = <<>>
  /\ shader_appended = <<>>
  /\ pipeline_appended = <<>>
  /\ assert_failed = {}
  /\ crashed = FALSE
  /\ pc = [c \in Callers |-> "idle"]
  /\ frame = [c \in Callers |-> EmptyFrame]
  /\ out = [c \in Callers |-> NoResult]
  /\ overlapped = FALSE
  /\ calls = 0

\* No call of the enumerator has been made.
NoEnumeratorCall ==
  [name |-> "none", result |-> "none", buffer_size |-> 0, buffer_data |-> <<>>,
   has_written_count |-> FALSE]

\* No XStaticEnumerator has been created.
NoEnumerator ==
  [items_per_enumerate_ |-> 0, item_size_ |-> 0, item_count_ |-> 0,
   current_item_ |-> 0, buffer_ |-> <<>>, written_count |-> 0,
   appended |-> <<>>, copied |-> <<>>, calls |-> 0, call |-> NoEnumeratorCall]

PipelineCacheStartWith(logs) ==
  /\ PipelineCacheStartWithThreads(logs, 0..MaxCreationThreads)
  /\ enumerator = NoEnumerator

StartWith(logs) ==
  /\ PipelineCacheStartWith(logs)
  /\ translator = ResetTranslator

Init == \E logs \in InitialLogs : StartWith(logs)

(***************************************************************************)
(* Threads.                                                                *)
(***************************************************************************)
\* A draw: the steps of ConfigurePipeline on thread c.
Draw(c) ==
  \/ \E vs \in VertexShaderHashes, ps \in PixelShaderHashes \cup {NoShader},
        ff \in FixedFunctionStates, rs \in BOOLEAN, hvst \in BOOLEAN, ok \in BOOLEAN :
       ConfigurePipeline(c, vs, ps, ff, rs, hvst, ok)
  \/ \E ok \in BOOLEAN : ConfigurePipelineTranslatePixel(c, ok)
  \/ \E ok \in BOOLEAN : ConfigurePipelineInsert(c, ok)
  \/ ConfigurePipelineStore(c)

\* Everything else the command processor thread calls.
Processor(c) ==
  \/ \E h \in ShaderHashes : LoadShader(c, h)
  \/ EndSubmission(c)
  \/ EndSubmissionAwait(c)
  \/ \E ok \in BOOLEAN : CreateQueuedPipelinesOnProcessorThread(c, ok)
  \/ WaitCreationCompletion(c)
  \/ ShutdownShaderStorage(c)
  \/ ShutdownShaderStorageJoin(c)
  \/ ClearCache(c, FALSE)
  \/ ClearCacheQueue(c)
  \/ ClearCacheDestroy(c)
  \/ \E blocking \in BOOLEAN : InitializeShaderStorage(c, blocking)
  \/ \E translatable \in SUBSET ShaderHashes, lpc \in LogicalProcessorCounts,
        seek_ok \in BOOLEAN :
       InitializeShaderStorageShaders(c, translatable, lpc, seek_ok)
  \/ \E rs \in BOOLEAN, ok \in BOOLEAN : InitializeShaderStoragePipeline(c, rs, ok)
  \/ InitializeShaderStorageFinish(c)

CreationThread ==
  \E t \in CreationThreadIds :
    \/ CreationThreadDequeue(t)
    \/ \E ok \in BOOLEAN : CreationThreadCreate(t, ok)
    \/ CreationThreadDecrement(t)
    \/ CreationThreadSpuriousWakeup(t)

StorageWriteThread ==
  \/ StorageWriteThreadDequeue
  \/ StorageWriteThreadWrite
  \/ StorageWriteThreadSpuriousWakeup

\* All calls are made by the command processor thread.
Next ==
  \/ Draw(ProcessorThread)
  \/ Processor(ProcessorThread)
  \/ CreationThread
  \/ StorageWriteThread

Spec == Init /\ [][Next]_vars

\* The storage write thread is scheduled as long as it can take a step.
\* The sessions whose every infinite behaviour is examined: with either log
\* kind and with or without a creation thread, a populated log being replayed
\* on the calling thread.
InitFair ==
  \E logs \in InitialLogs :
    /\ StartWith(logs)
    /\ creation_thread_count = 0 \/ logs.shaders = EmptyFile

FairSpec ==
  /\ InitFair
  /\ [][Next]_vars
  /\ WF_vars(StorageWriteThreadDequeue)
  /\ WF_vars(StorageWriteThreadWrite)

\* A draw with the fixed-function state of DrawDescription, which
\* GetCurrentStateDescription accepts.
DrawSameState(c) ==
  \/ \E vs \in VertexShaderHashes, ps \in PixelShaderHashes \cup {NoShader},
        ok \in BOOLEAN :
       ConfigurePipeline(c, vs, ps, DrawDescription.fixed_function, TRUE, TRUE, ok)
  \/ \E ok \in BOOLEAN : ConfigurePipelineTranslatePixel(c, ok)
  \/ \E ok \in BOOLEAN : ConfigurePipelineInsert(c, ok)
  \/ ConfigurePipelineStore(c)

\* The command processor thread is not inside InitializeShaderStorage.
StorageCallDone ==
  pc[ProcessorThread] \in {"idle", "cp_translate_pixel", "cp_insert", "cp_store"}

\* Two threads issue draws with the same fixed-function state on a cache whose
\* shader storage the command processor thread may have initialized first.
NextTwoCallers ==
  \/ DrawSameState(ProcessorThread)
  \/ StorageCallDone /\ DrawSameState(SecondThread)
  \/ \E h \in ShaderHashes : LoadShader(ProcessorThread, h)
  \/ \E blocking \in BOOLEAN :
       calls = 0 /\ InitializeShaderStorage(ProcessorThread, blocking)
  \/ ShutdownShaderStorageJoin(ProcessorThread)
  \/ \E translatable \in SUBSET ShaderHashes, lpc \in LogicalProcessorCounts,
        seek_ok \in BOOLEAN :
       InitializeShaderStorageShaders(ProcessorThread, translatable, lpc, seek_ok)
  \/ \E rs \in BOOLEAN, ok \in BOOLEAN :
       InitializeShaderStoragePipeline(ProcessorThread, rs, ok)
  \/ \E ok \in BOOLEAN : CreateQueuedPipelinesOnProcessorThread(ProcessorThread, ok)
  \/ InitializeShaderStorageFinish(ProcessorThread)
  \/ CreationThread
  \/ StorageWriteThread

SpecTwoCallers == Init /\ [][NextTwoCallers]_vars

(***************************************************************************)
(* The replay at startup of logs that a crash or a disk fault damaged.     *)
(***************************************************************************)
\* A shader record whose microcode does not hash to the hash of its header.
CorruptShaderRecord(shader_hash) ==
  [ucode_data_hash |-> shader_hash, ucode |-> CorruptUcode]
\* A stored description whose description_hash is not the hash of the
\* description.
CorruptStoredDescription(description) ==
  [description_hash |-> 1 - DescriptionHash(description), description |-> description]

SequencesOf(alphabet) == UNION {[1..n -> alphabet] : n \in 0..MaxRecords}

ShaderLogs ==
  {EmptyFile}
    \cup {[header |-> TRUE, records |-> records, tail |-> tail] :
            records \in SequencesOf({ShaderRecord(h) : h \in ShaderHashes}
                                      \cup {CorruptShaderRecord(h) : h \in ShaderHashes}),
            tail \in {NoTail, [kind |-> "header", ucode_data_hash |-> NoShader]}
                      \cup {[kind |-> "ucode", ucode_data_hash |-> h] : h \in ShaderHashes}}

DescriptionWithoutPixelShader ==
  [vertex_shader_hash |-> 1, pixel_shader_hash |-> NoShader, fixed_function |-> 0]

PipelineLogs ==
  {EmptyFile}
    \cup {[header |-> TRUE, records |-> records, tail |-> tail] :
            records \in SequencesOf({StoredDescription(DrawDescription),
                                      StoredDescription(DescriptionWithoutPixelShader),
                                      CorruptStoredDescription(DrawDescription)}),
            tail \in {NoTail, [kind |-> "description", ucode_data_hash |-> NoShader]}}

\* Logs in which one of the two files is damaged in every way of the model;
\* the other one holds both shaders, or the two descriptions that use them.
ReplayLogs ==
  {[shaders |-> shaders,
    pipelines |-> [header |-> TRUE,
                   records |-> <<StoredDescription(DrawDescription),
                                 StoredDescription(DescriptionWithoutPixelShader)>>,
                   tail |-> NoTail]] : shaders \in ShaderLogs}
    \cup {[shaders |-> [header |-> TRUE,
                        records |-> <<ShaderRecord(1), ShaderRecord(2)>>,
                        tail |-> NoTail],
           pipelines |-> pipelines] : pipelines \in PipelineLogs}

InitReplay == \E logs \in ReplayLogs : StartWith(logs)

\* The command processor thread loads shaders and then initializes the shader
\* storage once; the threads of the cache run.
NextReplay ==
  \/ \E h \in ShaderHashes :
       ~storage_write_thread_ /\ LoadShader(ProcessorThread, h)
  \/ \E blocking \in BOOLEAN :
       ~storage_write_thread_ /\ InitializeShaderStorage(ProcessorThread, blocking)
  \/ ShutdownShaderStorageJoin(ProcessorThread)
  \/ \E translatable \in SUBSET ShaderHashes, lpc \in LogicalProcessorCounts,
        seek_ok \in BOOLEAN :
       InitializeShaderStorageShaders(ProcessorThread, translatable, lpc, seek_ok)
  \/ \E rs \in BOOLEAN, ok \in BOOLEAN :
       InitializeShaderStoragePipeline(ProcessorThread, rs, ok)
  \/ \E ok \in BOOLEAN : CreateQueuedPipelinesOnProcessorThread(ProcessorThread, ok)
  \/ InitializeShaderStorageFinish(ProcessorThread)
  \/ CreationThread
  \/ StorageWriteThreadDequeue
  \/ StorageWriteThreadSpuriousWakeup

SpecReplay == InitReplay /\ [][NextReplay]_vars

(***************************************************************************)
(* The replay of the shader log step by step: the read loop of             *)
(* InitializeShaderStorage on the command processor thread and the         *)
(* translation threads it creates. InitializeShaderStorageShaders is the   *)
(* summary of these steps.                                                 *)
(***************************************************************************)
TranslationWaiters(tpc) == {t \in TranslationThreadIds : tpc[t] = "wait"}
\* shaders_translation_thread_cond.notify_one(): the possible positions
\* afterwards.
TranslationNotifyOne(tpc) ==
  IF TranslationWaiters(tpc) = {} THEN {tpc}
  ELSE {[tpc EXCEPT ![t] = "lock"] : t \in TranslationWaiters(tpc)}
\* shaders_translation_thread_cond.notify_all().
TranslationNotifyAll(tpc) ==
  [t \in TranslationThreadIds |-> IF tpc[t] = "wait" THEN "lock" ELSE tpc[t]]

\* Thread::Create while shader_translation_threads.size() is below needed.
TranslationThreadsCreated(tpc, needed) ==
  [t \in TranslationThreadIds |->
     IF tpc[t] = "none" /\ t <= needed THEN "lock" ELSE tpc[t]]

\* What the steps of the shader replay leave alone.
ShaderReplayUnchanged ==
  UNCHANGED <<creation_thread_count, pipelines_, pipeline, current_pipeline_,
              creationVars, storageQueueVars, storage_write_thread_,
              storage_write_thread_shutdown_, storage_write_flush_shaders_,
              storage_write_flush_pipelines_, storageThreadVars,
              pipeline_storage_file_, pipeline_storage_file_flush_needed_,
              pipeline_file, shader_appended, pipeline_appended, assert_failed,
              crashed, out, overlapped, calls, translator, enumerator>>

\* The file is opened and its header is checked; a file of another version is
\* emptied and given the header.
ShaderReplayOpen(c, logical_processor_count) ==
  /\ pc[c] = "is_shaders"
  /\ ~crashed
  /\ shader_storage_file_' = TRUE
  /\ shader_storage_file_flush_needed_' = FALSE
  /\ frame' = [frame EXCEPT ![c].index = 1,
                            ![c].valid = 0,
                            ![c].shader_log = shader_file,
                            ![c].shaders_before = shaders_,
                            ![c].logical_processor_count = logical_processor_count]
  /\ IF shader_file.header
       THEN /\ pc' = [pc EXCEPT ![c] = "sr_read"]
            /\ UNCHANGED shader_file
       ELSE /\ pc' = [pc EXCEPT ![c] = "sr_done"]
            /\ shader_file' = FileWithHeader
  /\ UNCHANGED shaders_
  /\ ShaderReplayUnchanged

\* One iteration of the read loop.
ShaderReplayRead(c, seek_ok) ==
  LET locals == frame[c]
      records == shader_file.records
      i == locals.index
      hash == records[i].ucode_data_hash
      needed == ShaderTranslationThreadsNeeded(
                  locals.shader_translation_threads_busy,
                  Len(locals.shaders_to_translate),
                  locals.logical_processor_count)
      threads == IF locals.shader_translation_threads < needed
                   THEN needed ELSE locals.shader_translation_threads
      break == /\ pc' = [pc EXCEPT ![c] = "sr_join"]
               /\ UNCHANGED <<frame, shaders_>>
  IN
  /\ pc[c] = "sr_read"
  /\ ~crashed
  /\ IF i > Len(records)
       THEN IF /\ shader_file.tail.kind = "ucode"
               /\ ShaderKnown(shaders_, shader_file.tail.ucode_data_hash)
               /\ seek_ok
               /\ locals.valid = Len(records)
              THEN \* the partial record is counted; the next fread fails
                   /\ frame' = [frame EXCEPT ![c].valid = @ + 1]
                   /\ pc' = [pc EXCEPT ![c] = "sr_join"]
                   /\ UNCHANGED shaders_
              ELSE break
     ELSE IF ShaderKnown(shaders_, hash)
       THEN /\ frame' = [frame EXCEPT ![c].index = i + 1, ![c].valid = @ + 1]
            /\ UNCHANGED <<pc, shaders_>>
     ELSE IF ~ShaderRecordValid(records[i])
       THEN break
     ELSE /\ shaders_' = [shaders_ EXCEPT ![hash] = NewShader]
          /\ \E tpc \in TranslationNotifyOne(
                           TranslationThreadsCreated(locals.translation_pc, threads)) :
               frame' = [frame EXCEPT
                 ![c].index = i + 1,
                 ![c].valid = @ + 1,
                 ![c].created = @ \cup {hash},
                 ![c].shader_translation_threads = threads,
                 ![c].shaders_to_translate = Append(@, hash),
                 ![c].translation_pc = tpc]
          /\ UNCHANGED pc
  /\ UNCHANGED <<shader_file, shader_storage_file_, shader_storage_file_flush_needed_>>
  /\ ShaderReplayUnchanged

\* The bytes that TruncateStdioFile(shader_storage_file_,
\* shader_storage_valid_bytes) leaves: the records that were counted; a
\* partial record that was counted stays as a record of junk.
ShaderLogTruncated(file, valid) ==
  [header |-> TRUE,
   records |-> IF valid > Len(file.records)
                 THEN Append(file.records,
                             [ucode_data_hash |-> file.tail.ucode_data_hash,
                              ucode |-> CorruptUcode])
                 ELSE SubSeq(file.records, 1, valid),
   tail |-> NoTail]

\* After the loop: without translation threads there is nothing to join and
\* the file is truncated at once; otherwise the shutdown flag is set under the
\* mutex and all threads are notified.
ShaderReplayJoin(c) ==
  /\ pc[c] = "sr_join"
  /\ ~crashed
  /\ IF frame[c].shader_translation_threads = 0
       THEN /\ pc' = [pc EXCEPT ![c] = "sr_done"]
            /\ shader_file' = ShaderLogTruncated(shader_file, frame[c].valid)
            /\ UNCHANGED frame
       ELSE /\ pc' = [pc EXCEPT ![c] = "sr_wait"]
            /\ frame' = [frame EXCEPT
                 ![c].shader_translation_threads_shutdown = TRUE,
                 ![c].translation_pc = TranslationNotifyAll(@)]
            /\ UNCHANGED shader_file
  /\ UNCHANGED <<shaders_, shader_storage_file_, shader_storage_file_flush_needed_>>
  /\ ShaderReplayUnchanged

\* Wait on every translation thread, then the shaders that failed to
\* translate are erased from shaders_ and deleted, and the file is truncated.
ShaderReplayErase(c) ==
  /\ pc[c] = "sr_wait"
  /\ ~crashed
  /\ \A t \in TranslationThreadIds : frame[c].translation_pc[t] \in {"none", "done"}
  /\ shaders_' = [h \in ShaderHashes |->
                    IF h \in frame[c].shaders_failed_to_translate
                      THEN AbsentShader ELSE shaders_[h]]
  /\ shader_file' = ShaderLogTruncated(shader_file, frame[c].valid)
  /\ frame' = [frame EXCEPT ![c].shader_translation_threads = 0]
  /\ pc' = [pc EXCEPT ![c] = "sr_done"]
  /\ UNCHANGED <<shader_storage_file_, shader_storage_file_flush_needed_>>
  /\ ShaderReplayUnchanged

\* shader_translation_thread_function: the critical section at the top of the
\* loop of thread t of the call on thread c.
TranslationThreadDequeue(c, t) ==
  LET locals == frame[c] IN
  /\ locals.translation_pc[t] = "lock"
  /\ ~crashed
  /\ IF locals.shaders_to_translate = <<>>
       THEN frame' = [frame EXCEPT ![c].translation_pc[t] =
                        IF locals.shader_translation_threads_shutdown
                          THEN "done" ELSE "wait"]
       ELSE frame' = [frame EXCEPT
              ![c].translation_local[t] = Front(locals.shaders_to_translate),
              ![c].shaders_to_translate = PopFront(@),
              ![c].shader_translation_threads_busy = @ + 1,
              ![c].translation_pc[t] = "translate"]
  /\ UNCHANGED <<pc, shaders_, shader_file, shader_storage_file_,
                 shader_storage_file_flush_needed_>>
  /\ ShaderReplayUnchanged

\* TranslateShader on the shader that was taken; a failed one is pushed to
\* shaders_failed_to_translate under its mutex.
TranslationThreadTranslate(c, t, success) ==
  LET hash == frame[c].translation_local[t]
      translation == TranslateShader(shaders_[hash], success)
  IN
  /\ frame[c].translation_pc[t] = "translate"
  /\ ~crashed
  /\ shaders_' = [shaders_ EXCEPT ![hash] = translation.shader]
  /\ frame' = [frame EXCEPT
       ![c].shaders_failed_to_translate =
          IF translation.result THEN @ ELSE @ \cup {hash},
       ![c].translated = Append(@, <<t, hash>>),
       ![c].translation_pc[t] = "decrement"]
  /\ UNCHANGED <<pc, shader_file, shader_storage_file_,
                 shader_storage_file_flush_needed_>>
  /\ ShaderReplayUnchanged

\* --shader_translation_threads_busy under the mutex.
TranslationThreadDecrement(c, t) ==
  /\ frame[c].translation_pc[t] = "decrement"
  /\ ~crashed
  /\ frame' = [frame EXCEPT
       ![c].shader_translation_threads_busy = @ - 1,
       ![c].translation_local[t] = NoShader,
       ![c].translation_pc[t] = "lock"]
  /\ UNCHANGED <<pc, shaders_, shader_file, shader_storage_file_,
                 shader_storage_file_flush_needed_>>
  /\ ShaderReplayUnchanged

\* std::condition_variable::wait may return without a notification.
TranslationThreadSpuriousWakeup(c, t) ==
  /\ frame[c].translation_pc[t] = "wait"
  /\ ~crashed
  /\ frame' = [frame EXCEPT ![c].translation_pc[t] = "lock"]
  /\ UNCHANGED <<pc, shaders_, shader_file, shader_storage_file_,
                 shader_storage_file_flush_needed_>>
  /\ ShaderReplayUnchanged

TranslationThread(c) ==
  \E t \in TranslationThreadIds :
    \/ TranslationThreadDequeue(c, t)
    \/ \E success \in BOOLEAN : TranslationThreadTranslate(c, t, success)
    \/ TranslationThreadDecrement(c, t)
    \/ TranslationThreadSpuriousWakeup(c, t)

\* Startup with a shader log of an earlier run, damaged or not.
InitShaderReplay ==
  \E shaders \in ShaderLogs :
    StartWith([shaders |-> shaders, pipelines |-> EmptyFile])

NextShaderReplay ==
  \/ \E h \in ShaderHashes :
       ~storage_write_thread_ /\ LoadShader(ProcessorThread, h)
  \/ \E blocking \in BOOLEAN :
       ~storage_write_thread_ /\ InitializeShaderStorage(ProcessorThread, blocking)
  \/ ShutdownShaderStorageJoin(ProcessorThread)
  \/ \E lpc \in LogicalProcessorCounts : ShaderReplayOpen(ProcessorThread, lpc)
  \/ \E seek_ok \in BOOLEAN : ShaderReplayRead(ProcessorThread, seek_ok)
  \/ ShaderReplayJoin(ProcessorThread)
  \/ ShaderReplayErase(ProcessorThread)
  \/ TranslationThread(ProcessorThread)

SpecShaderReplay == InitShaderReplay /\ [][NextShaderReplay]_vars

(***************************************************************************)
(* Properties.                                                             *)
(***************************************************************************)
\* Thread c has returned from a call of operation op.
Returned(c, op) == pc[c] = "idle" /\ out[c].op = op

\* Thread c has returned true from ConfigurePipeline.
Configured(c) == Returned(c, "ConfigurePipeline") /\ out[c].result = "true"

\* The number of positions of sequence seq that hold x.
Count(x, seq) == Cardinality({i \in 1..Len(seq) : seq[i] = x})

IsPrefix(prefix, seq) ==
  /\ Len(prefix) <= Len(seq)
  /\ SubSeq(seq, 1, Len(prefix)) = prefix

\* The last n elements of seq.
LastOf(seq, n) == SubSeq(seq, Len(seq) - n + 1, Len(seq))

\* The entries of the lookup structure with the given description.
EntriesWith(description) ==
  {id \in pipelines_ : pipeline[id].description = description}

\* Two threads have returned true from requests with the same description.
SameRequestServed(c1, c2) ==
  /\ c1 # c2
  /\ Configured(c1)
  /\ Configured(c2)
  /\ out[c1].description = out[c2].description

\* Requests with one description were served by one Pipeline: one entry, one
\* handle, at most one compilation, one record queued for the pipeline log.
ServedByOnePipeline(c1, c2) ==
  /\ out[c1].pipeline_handle_out = out[c2].pipeline_handle_out
  /\ Cardinality(EntriesWith(out[c1].description)) = 1
  /\ \A id \in EntriesWith(out[c1].description) : pipeline[id].created <= 1
  /\ Count(out[c1].description, pipeline_enqueued) <= 1
  /\ (pipeline_storage_file_ /\ (out[c1].miss \/ out[c2].miss))
       => Count(out[c1].description, pipeline_enqueued) = 1

C2_NoDuplicateDescriptions ==
  /\ \A id1, id2 \in pipelines_ :
       pipeline[id1].description = pipeline[id2].description => id1 = id2
  /\ \A c \in Callers :
       Configured(c) =>
         /\ out[c].pipeline_handle_out \in pipelines_
         /\ pipeline[out[c].pipeline_handle_out].description = out[c].description
         /\ EntriesWith(out[c].description) = {out[c].pipeline_handle_out}

\* A pipeline log with two records of one description has been replayed, and
\* a request with that description returned the entry the replay created.
C2_DuplicateRecordsReplayed ==
  /\ Count(StoredDescription(DrawDescription), pipeline_file.records) = 2
  /\ Configured(ProcessorThread)
  /\ out[ProcessorThread].description = DrawDescription
  /\ ~out[ProcessorThread].miss
  /\ EntriesWith(DrawDescription) = {out[ProcessorThread].pipeline_handle_out}

\* The Pipeline objects the creation threads hold between the dequeue and the
\* end of CreateD3D12Pipeline.
HeldByCreationThreads ==
  {creation_local[t] : t \in {u \in CreationThreadIds : creation_pc[u] = "create"}}

\* C3: CreateD3D12Pipeline runs at most once for an entry; an entry is in the
\* lookup structure with a null object for as long as it is queued or held by
\* a creation thread; it is queued at most once and is not queued while a
\* thread holds it or after it was compiled; no two threads hold one entry.
C3_CompiledAtMostOnce ==
  /\ \A id \in PipelineIds : pipeline[id].created <= 1
  /\ \A id \in PipelineIds :
       (pipeline[id].allocated /\ pipeline[id].created = 0) =>
         pipeline[id].state = "null"
  /\ \A i \in 1..Len(creation_queue_) :
       /\ creation_queue_[i] \in pipelines_
       /\ pipeline[creation_queue_[i]].created = 0
       /\ creation_queue_[i] \notin HeldByCreationThreads
       /\ \A j \in 1..Len(creation_queue_) :
            creation_queue_[i] = creation_queue_[j] => i = j
  /\ \A id \in HeldByCreationThreads :
       /\ id \in pipelines_
       /\ pipeline[id].created = 0
  /\ \A t1, t2 \in CreationThreadIds :
       (creation_pc[t1] = "create" /\ creation_pc[t2] = "create"
          /\ creation_local[t1] = creation_local[t2]) => t1 = t2

\* A request with the description of an entry that a creation thread is
\* compiling returned that entry and queued nothing.
C3_InFlightEntryRequestedAgain ==
  /\ creation_thread_count # 0
  /\ Configured(ProcessorThread)
  /\ ~out[ProcessorThread].miss
  /\ out[ProcessorThread].pipeline_handle_out \in HeldByCreationThreads
  /\ pipeline[out[ProcessorThread].pipeline_handle_out].created = 0
  /\ creation_queue_ = <<>>

\* The translation attempts are consistent with the flags of the shaders, and
\* no shader has been translated twice.
TranslatedAtMostOnce ==
  \A h \in ShaderHashes :
    /\ shaders_[h].translations <= 1
    /\ shaders_[h].is_translated <=> shaders_[h].translations = 1

\* A step of LoadShader makes no translation attempt.
LoadShaderTranslatesNothing ==
  \A c \in Callers :
    (calls' = calls + 1 /\ out'[c].op = "LoadShader") =>
      \A h \in ShaderHashes :
        shaders_'[h].translations =
          IF shaders_[h].present THEN shaders_[h].translations ELSE 0

\* Thread c has returned from a request that missed the cache.
Missed(c) == Returned(c, "ConfigurePipeline") /\ out[c].miss

\* C4 as stated: a request that missed the cache has attempted the translation
\* of its vertex shader and of its pixel shader.
C4_BothShadersAttemptedOnFirstMiss ==
  \A c \in Callers :
    Missed(c) =>
      /\ shaders_[out[c].description.vertex_shader_hash].translations = 1
      /\ out[c].description.pixel_shader_hash # NoShader =>
           shaders_[out[c].description.pixel_shader_hash].translations = 1

\* C4: a shader is translated at most once, successfully or not; LoadShader
\* translates nothing; a request that missed the cache has attempted the
\* translation of its vertex shader and, unless the vertex shader's
\* translation failed in that request, of its pixel shader.
C4_TranslatedOnceOnFirstMiss ==
  /\ [](TranslatedAtMostOnce)
  /\ [][LoadShaderTranslatesNothing]_vars
  /\ [](\A c \in Callers :
         Missed(c) =>
           /\ shaders_[out[c].description.vertex_shader_hash].translations = 1
           /\ (out[c].description.pixel_shader_hash # NoShader
                 /\ out[c].cause # "vertex_translation") =>
                shaders_[out[c].description.pixel_shader_hash].translations = 1)

\* A request was served after an earlier request had failed to translate the
\* pixel shader: the failed translation was attempted once.
C4_FailedTranslationNotRetried ==
  /\ Configured(ProcessorThread)
  /\ out[ProcessorThread].miss
  /\ out[ProcessorThread].description.pixel_shader_hash # NoShader
  /\ ~shaders_[out[ProcessorThread].description.pixel_shader_hash].is_valid
  /\ shaders_[out[ProcessorThread].description.pixel_shader_hash].translations = 1
  /\ shaders_[out[ProcessorThread].description.vertex_shader_hash].translations = 1

\* The step of thread c in which a request runs into a failure.
FailingStep(c) == out'[c] # out[c] /\ out'[c].cause # "none"

\* C5: the step in which a request fails for a missing root signature, an
\* unsupported host vertex shader type or a failed vertex or pixel shader
\* translation returns false, adds no entry, queues nothing for compilation
\* or for the pipeline log and leaves the output parameters unwritten; until
\* the pixel shader has been handled the request has added no entry.
C5_FailedRequestLeavesNoTrace ==
  /\ [][\A c \in Callers :
          FailingStep(c) =>
            /\ pc'[c] = "idle"
            /\ out'[c].result = "false"
            /\ out'[c].pipeline_handle_out = Unwritten
            /\ out'[c].root_signature_out = Unwritten
            /\ pipelines_' = pipelines_
            /\ pipeline' = pipeline
            /\ current_pipeline_' = current_pipeline_
            /\ creation_queue_' = creation_queue_
            /\ storage_write_pipeline_queue_' = storage_write_pipeline_queue_
            /\ pipeline_enqueued' = pipeline_enqueued]_vars
  /\ [](pc[ProcessorThread] = "cp_translate_pixel" =>
          EntriesWith(frame[ProcessorThread].description) = {})

\* A request failed on the translation of its pixel shader while an entry of
\* an earlier request exists.
C5_RequestFailedOnPixelShader ==
  /\ Returned(ProcessorThread, "ConfigurePipeline")
  /\ out[ProcessorThread].result = "false"
  /\ out[ProcessorThread].cause = "pixel_translation"
  /\ pipelines_ # {}
  /\ EntriesWith(out[ProcessorThread].description) = {}

\* The entry was compiled and the host object creation failed.
CreationFailed(id) ==
  /\ id \in pipelines_
  /\ pipeline[id].created = 1
  /\ pipeline[id].state = "null"

\* C6: an entry whose host object creation failed stays in the lookup
\* structure unchanged, with a null object and without another compilation,
\* until ClearCache destroys the entries, and every request with its
\* description that GetCurrentStateDescription accepts returns true with that
\* entry.
C6_FailedCreationIsCached ==
  [][\A id \in PipelineIds :
       CreationFailed(id) =>
         \/ pc[ProcessorThread] = "cc_destroy"
         \/ /\ id \in pipelines_'
            /\ pipeline'[id] = pipeline[id]
            /\ id \notin {creation_queue_'[i] : i \in 1..Len(creation_queue_')}
            /\ \A c \in Callers :
                 (out'[c] # out[c] /\ out'[c].op = "ConfigurePipeline"
                    /\ out'[c].description = pipeline[id].description
                    /\ out'[c].cause = "none") =>
                   /\ out'[c].result = "true"
                   /\ out'[c].pipeline_handle_out = id]_vars

\* A request returned an entry whose host object creation had failed.
C6_FailedEntryReturned ==
  /\ Configured(ProcessorThread)
  /\ ~out[ProcessorThread].miss
  /\ CreationFailed(out[ProcessorThread].pipeline_handle_out)

\* C7: when ClearCache is about to release and delete the Pipelines, the
\* creation queue is empty, creation_threads_busy_ is zero and no creation
\* thread is inside CreateD3D12Pipeline or holds a Pipeline.
C7_NoCreationInFlightAtDestroy ==
  pc[ProcessorThread] = "cc_destroy" =>
    /\ creation_queue_ = <<>>
    /\ creation_threads_busy_ = 0
    /\ HeldByCreationThreads = {}
    /\ \A t \in CreationThreadIds : creation_pc[t] \notin {"create", "decrement"}

\* ClearCache has waited for a busy creation thread and is about to delete
\* the Pipelines.
C7_DestroyAfterWaiting ==
  /\ pc[ProcessorThread] = "cc_destroy"
  /\ frame[ProcessorThread].return_to = "cc_destroy"
  /\ pipelines_ # {}

\* C8: when EndSubmission has returned on a cache with creation threads, the
\* creation queue is empty, no creation thread is busy, and every Pipeline
\* of the lookup structure has had its compilation attempt.
C8_EndSubmissionDrains ==
  (Returned(ProcessorThread, "EndSubmission") /\ creation_thread_count # 0) =>
    /\ creation_queue_ = <<>>
    /\ creation_threads_busy_ = 0
    /\ HeldByCreationThreads = {}
    /\ \A id \in pipelines_ : pipeline[id].created = 1

\* EndSubmission has returned on a cache with creation threads that holds two
\* Pipelines.
C8_EndSubmissionReturned ==
  /\ Returned(ProcessorThread, "EndSubmission")
  /\ creation_thread_count # 0
  /\ Cardinality(pipelines_) = 2

\* C9: without creation threads, the creation queue is empty in every state,
\* every Pipeline of the lookup structure outside of the request that creates
\* it has been compiled, and no caller waits for the completion event.
C9_SynchronousWithoutThreads ==
  creation_thread_count = 0 =>
    /\ creation_queue_ = <<>>
    /\ creation_threads_busy_ = 0
    /\ \A id \in pipelines_ : pipeline[id].created = 1
    /\ \A c \in Callers : pc[c] # "wait_event"

\* Without creation threads a request created a Pipeline and a replay of the
\* pipeline log created another; EndSubmission returned.
C9_CompiledInline ==
  /\ creation_thread_count = 0
  /\ Returned(ProcessorThread, "EndSubmission")
  /\ Cardinality(pipelines_) = 2
  /\ pipeline_enqueued # <<>>

\* The shader and the pipeline description the storage write thread has taken
\* from the queues and not written yet.
ShaderInHand ==
  IF storage_pc = "write" /\ storage_local.shader # NoShader
    THEN <<storage_local.shader>> ELSE <<>>
PipelineInHand ==
  IF storage_pc = "write" /\ storage_local.write_pipeline
    THEN <<storage_local.pipeline_description.description>> ELSE <<>>
QueuedShaders == storage_write_shader_queue_
QueuedPipelines ==
  [i \in 1..Len(storage_write_pipeline_queue_) |->
     storage_write_pipeline_queue_[i].description]

\* C10 as stated: once the shader storage has been shut down, by
\* ShutdownShaderStorage or by ClearCache, every shader and every pipeline
\* description that was enqueued has been appended to its log.
C10_AllAppendedAfterShutdown ==
  ~storage_write_thread_ =>
    /\ shader_appended = shader_enqueued
    /\ pipeline_appended = pipeline_enqueued

\* C10: what has been appended to a log is a prefix of what was enqueued, so
\* nothing is written twice or out of order; the appended records are the
\* last ones of the file; while the storage write thread exists every enqueued
\* entry is appended, in the hands of the thread or in the queue; and every
\* enqueued entry is eventually appended unless the shutdown of the shader
\* storage is requested first.
C10_AppendedInOrderUntilShutdown ==
  /\ [](/\ IsPrefix(shader_appended, shader_enqueued)
        /\ IsPrefix(pipeline_appended, pipeline_enqueued)
        /\ storage_write_thread_ =>
             /\ shader_appended \o ShaderInHand \o QueuedShaders = shader_enqueued
             /\ pipeline_appended \o PipelineInHand \o QueuedPipelines
                  = pipeline_enqueued
             /\ Len(shader_file.records) >= Len(shader_appended)
             /\ LastOf(shader_file.records, Len(shader_appended))
                  = [i \in 1..Len(shader_appended) |-> ShaderRecord(shader_appended[i])]
             /\ Len(pipeline_file.records) >= Len(pipeline_appended)
             /\ LastOf(pipeline_file.records, Len(pipeline_appended))
                  = [i \in 1..Len(pipeline_appended) |->
                       StoredDescription(pipeline_appended[i])])
  /\ (shader_appended # shader_enqueued)
       ~> (shader_appended = shader_enqueued \/ storage_write_thread_shutdown_)
  /\ (pipeline_appended # pipeline_enqueued)
       ~> (pipeline_appended = pipeline_enqueued \/ storage_write_thread_shutdown_)

\* Two shaders and a pipeline description were enqueued and have been appended
\* to the logs in that order.
C10_EnqueuedEntriesAppended ==
  /\ storage_write_thread_
  /\ ~storage_write_thread_shutdown_
  /\ shader_enqueued = <<1, 2>>
  /\ shader_appended = <<1, 2>>
  /\ pipeline_enqueued # <<>>
  /\ pipeline_appended = pipeline_enqueued

(***************************************************************************)
(* C11: the log files belong to the storage write thread.                  *)
(***************************************************************************)
\* The storage write thread exists and its function has not returned.
StorageThreadRunning == storage_write_thread_ /\ storage_pc # "done"

\* The file handles and the contents of the two logs.
LogFiles == <<shader_storage_file_, pipeline_storage_file_, shader_file, pipeline_file>>

\* C11: while the storage write thread runs, every step that touches a log
\* file or its handle is the write step of that thread (no caller moves in
\* it), and a step of a caller leaves the files, the handles and the locals of
\* the thread alone: it only changes the write queues, the flush flags and the
\* shutdown flag, and wakes the thread.
C11_OnlyStorageThreadTouchesLogs ==
  [][StorageThreadRunning =>
       /\ LogFiles' # LogFiles =>
            /\ storage_pc = "write"
            /\ storage_pc' = "loop"
            /\ pc' = pc
       /\ pc' # pc =>
            /\ LogFiles' = LogFiles
            /\ storage_local' = storage_local]_vars

\* The storage write thread is between its critical section and its fwrite
\* calls while the command processor thread is inside ConfigurePipeline with an
\* entry waiting in a write queue.
C11_WriteDuringCall ==
  /\ storage_pc = "write"
  /\ pc[ProcessorThread] \in {"cp_translate_pixel", "cp_insert", "cp_store"}
  /\ shader_appended # <<>>

(***************************************************************************)
(* C12: replay of a damaged log.                                           *)
(***************************************************************************)
\* The least member of a set of positions of a log; one past the end of the
\* log when the set is empty.
FirstOf(positions, records) ==
  IF positions = {} THEN Len(records) + 1
  ELSE CHOOSE k \in positions : \A j \in positions : k <= j

\* The position of the first shader record whose microcode does not hash to
\* the hash of its header.
FirstCorruptShaderRecord(records) ==
  FirstOf({k \in 1..Len(records) : ~ShaderRecordValid(records[k])}, records)

\* The position of the first stored description that does not hash to its
\* description_hash.
FirstCorruptDescription(records) ==
  FirstOf({k \in 1..Len(records) : ~PipelineRecordValid(records[k])}, records)

\* The command processor thread returns from InitializeShaderStorage.
ReplayReturns ==
  /\ pc[ProcessorThread] = "is_finish"
  /\ pc'[ProcessorThread] = "idle"

\* C12: when InitializeShaderStorage returns, each log that had the header of
\* this build holds exactly its records before the first one whose content
\* does not match its hash and no partial record; the read loop created the
\* shaders of those records of the shader log that were not in the dictionary,
\* the pipelines that exist come from those records of the pipeline log (the
\* lookup structure is empty before the replay at startup), and the call
\* returns nothing and has not stopped the process.
C12_ReplayStopsAtFirstDamage ==
  [][ReplayReturns =>
       LET log == frame[ProcessorThread].shader_log
           before == frame[ProcessorThread].shaders_before
           shader_count == FirstCorruptShaderRecord(log.records) - 1
           pipeline_count == FirstCorruptDescription(pipeline_file.records) - 1
       IN
       /\ log.header =>
            /\ shader_file' = [log EXCEPT !.records = SubSeq(@, 1, shader_count),
                                          !.tail = NoTail]
            /\ frame[ProcessorThread].created =
                 {log.records[j].ucode_data_hash : j \in 1..shader_count}
                   \ {h \in ShaderHashes : before[h].present}
       /\ pipeline_file.header =>
            /\ pipeline_file' =
                 [pipeline_file EXCEPT !.records = SubSeq(@, 1, pipeline_count),
                                       !.tail = NoTail]
            /\ \A id \in pipelines_' :
                 \E j \in 1..pipeline_count :
                   pipeline'[id].description = pipeline_file.records[j].description
       /\ out'[ProcessorThread].result = "none"
       /\ ~crashed']_vars

(***************************************************************************)
(* C13: replay of the pipeline log needs the shaders.                      *)
(***************************************************************************)
\* The shader with this hash is in the dictionary and is_valid() holds for it.
ShaderPresentAndValid(shader_hash) ==
  /\ shader_hash \in ShaderHashes
  /\ shaders_[shader_hash].present
  /\ shaders_[shader_hash].is_valid

\* The command processor thread runs one iteration of the loop over the
\* stored descriptions.
ReplayIteration ==
  /\ pc[ProcessorThread] = "is_pipelines"
  /\ frame'[ProcessorThread] # frame[ProcessorThread]

\* C13: an iteration of the replay loop that adds a Pipeline adds one entry,
\* with the description of the record it is at, and the vertex shader of that
\* description, and its pixel shader when the hash is not zero, are in the
\* dictionary and valid; every other iteration leaves the lookup structure,
\* the Pipeline objects and the creation queue as they are.
C13_ReplayCreatesOnlyWithValidShaders ==
  [][ReplayIteration =>
       LET i == frame[ProcessorThread].index
           description == pipeline_file.records[i].description
       IN
       IF pipelines_' # pipelines_
         THEN /\ i <= Len(pipeline_file.records)
              /\ \E id \in PipelineIds \ pipelines_ :
                   /\ pipelines_' = pipelines_ \cup {id}
                   /\ pipeline'[id].description = description
              /\ ShaderPresentAndValid(description.vertex_shader_hash)
              /\ description.pixel_shader_hash # NoShader =>
                   ShaderPresentAndValid(description.pixel_shader_hash)
         ELSE /\ pipeline' = pipeline
              /\ creation_queue_' = creation_queue_]_vars

\* The replay has created the pipeline of the description without a pixel
\* shader and has gone past a record, good by its hash, of the description
\* whose pixel shader is not valid.
C13_RecordWithoutPixelShaderSkipped ==
  /\ pc[ProcessorThread] \in {"is_pipelines", "drain", "is_finish"}
  /\ frame[ProcessorThread].op = "InitializeShaderStorage"
  /\ \E id \in pipelines_ : pipeline[id].description = DescriptionWithoutPixelShader
  /\ \E j \in 1..Len(pipeline_file.records) :
       /\ j < frame[ProcessorThread].index
       /\ pipeline_file.records[j] = StoredDescription(DrawDescription)
  /\ ~ShaderPresentAndValid(DrawDescription.pixel_shader_hash)

(***************************************************************************)
(* C14: a description survives the way through the pipeline log.           *)
(***************************************************************************)
\* The storage write thread appends a stored description to the pipeline log.
PipelineRecordWritten ==
  /\ storage_pc = "write"
  /\ storage_pc' = "loop"
  /\ storage_local.write_pipeline

\* C14: the record that the storage write thread appends holds the
\* description that ConfigurePipeline queued, in queue order, with a
\* description_hash that the check of the replay accepts; and an iteration of
\* the replay loop that adds a Pipeline, so that its compilation can start, is
\* at a record that passes this check, carries the description of the record
\* over unchanged and has found no entry with that description.
C14_StoredDescriptionRoundTrip ==
  [][/\ PipelineRecordWritten =>
          LET record == pipeline_file'.records[Len(pipeline_file'.records)]
              position == Len(pipeline_appended) + 1
          IN
          /\ Len(pipeline_file'.records) = Len(pipeline_file.records) + 1
          /\ position <= Len(pipeline_enqueued)
          /\ record.description = pipeline_enqueued[position]
          /\ DescriptionHash(record.description) = record.description_hash
     /\ (ReplayIteration /\ pipeline' # pipeline) =>
          LET record == pipeline_file.records[frame[ProcessorThread].index]
          IN
          /\ DescriptionHash(record.description) = record.description_hash
          /\ \A id \in pipelines_ : pipeline[id].description # record.description
          /\ \E id \in pipelines_' \ pipelines_ :
               /\ pipeline'[id].description = record.description
               /\ pipeline[id].created = 0]_vars

\* ClearCache has emptied the cache and its replay has made a Pipeline from a
\* description that only a draw of this session can have put into the log.
C14_WrittenDescriptionReloaded ==
  /\ pc[ProcessorThread] \in {"is_pipelines", "drain", "is_finish"}
  /\ frame[ProcessorThread].op = "ClearCache"
  /\ \E id \in pipelines_ :
       /\ pipeline[id].description # DrawDescription
       /\ \E j \in 1..Len(pipeline_file.records) :
            /\ j < frame[ProcessorThread].index
            /\ pipeline_file.records[j].description = pipeline[id].description

(***************************************************************************)
(* C15: the shaders of the log after the replay.                           *)
(***************************************************************************)
\* The read loop is over and the translation threads, if any, are joined.
ShaderReplayFinishes ==
  /\ pc[ProcessorThread] \in {"sr_join", "sr_wait"}
  /\ pc'[ProcessorThread] = "sr_done"

\* C15: when the replay of the shader log finishes, every shader object that
\* the read loop created is translated and valid or is no longer in the
\* dictionary, and TranslateShader was called for it exactly once, whatever
\* the number of logical processors.
C15_ReplayedShadersTranslatedOnce ==
  [][ShaderReplayFinishes =>
       \A h \in frame[ProcessorThread].created :
         /\ \/ ~shaders_'[h].present
            \/ shaders_'[h].is_translated /\ shaders_'[h].is_valid
         /\ Cardinality({i \in 1..Len(frame[ProcessorThread].translated) :
                           frame[ProcessorThread].translated[i][2] = h}) = 1]_vars

\* The steps of the replay and its summary agree: the dictionary and the file
\* after the last step are those of InitializeShaderStorageShaders for some
\* outcome of the translations and of Seek.
ShaderReplaySummaryAgrees ==
  [][ShaderReplayFinishes =>
       LET locals == frame[ProcessorThread]
           replayed == ReplayShaderRecords(locals.shader_log.records, 1,
                                           locals.shaders_before, {})
       IN
       /\ locals.created = replayed.created
       /\ \E translatable \in SUBSET ShaderHashes :
            shaders_' = ShadersAfterReplay(replayed, translatable,
                                           locals.logical_processor_count)
       /\ \E seek_ok \in BOOLEAN :
            shader_file' = ShaderLogAfterReplay(locals.shader_log, replayed, seek_ok)]_vars

(***************************************************************************)
(* C16: shaders outlive what points to them.                               *)
(***************************************************************************)
\* The shader object with this hash is owned by the dictionary.
ShaderOwned(shader_hash) ==
  shader_hash \in ShaderHashes /\ shaders_[shader_hash].present

\* C16: the vertex shader of every Pipeline of the lookup structure, and its
\* pixel shader when it has one, is owned by the shader dictionary, and so is
\* the shader of every entry of the shader write queue and the one the storage
\* write thread has taken from it.
C16_ReferencedShadersOwned ==
  /\ \A id \in pipelines_ :
       /\ ShaderOwned(pipeline[id].description.vertex_shader_hash)
       /\ pipeline[id].description.pixel_shader_hash # NoShader =>
            ShaderOwned(pipeline[id].description.pixel_shader_hash)
  /\ \A i \in 1..Len(storage_write_shader_queue_) :
       ShaderOwned(storage_write_shader_queue_[i])
  /\ storage_local.shader # NoShader => ShaderOwned(storage_local.shader)

\* InitializeShaderStorage has returned on a cache that held a Pipeline: the
\* record of the pixel shader is in the log, and the shader made from it is
\* not in the dictionary, so it failed to translate and was erased.
C16_ShaderErasedBesidePipeline ==
  /\ Returned(ProcessorThread, "InitializeShaderStorage")
  /\ pipelines_ # {}
  /\ ~ShaderOwned(DrawDescription.pixel_shader_hash)
  /\ \E i \in 1..Len(shader_file.records) :
       shader_file.records[i] = ShaderRecord(DrawDescription.pixel_shader_hash)

(***************************************************************************)
(* DxbcShaderTranslator::PushSystemTemp and PopSystemTemp                  *)
(***************************************************************************)
\* Registers that may be held at once, registers of one push or pop, and the
\* registers of the guest shader.
MaxSystemTemps == 3
MaxTempCount == 2
MaxRegisters == 2

\* The zero masks passed to PushSystemTemp: none, some lanes, all lanes, and
\* a value with a bit above the four lanes.
ZeroMasks == {0, 5, 15, 16 + 2}

\* Bit i of a mask, and the four-lane mask of a set of lanes.
Bit(mask, i) == (mask \div (2^i)) % 2
Lanes == 0..3
LanesOf(mask) == {i \in Lanes : Bit(mask, i) = 1}
RECURSIVE MaskOf(_)
MaskOf(lanes) ==
  IF lanes = {} THEN 0
  ELSE LET i == CHOOSE l \in lanes : TRUE IN 2^i + MaskOf(lanes \ {i})

\* The shaders the translator is reset for.
TranslatedShaders ==
  { [EmptyShader EXCEPT !.checked_build = checked,
                        !.is_depth_only_pixel_shader_ = depth_only,
                        !.uses_register_dynamic_addressing = dynamic,
                        !.register_count = registers] :
      checked \in BOOLEAN, depth_only \in BOOLEAN, dynamic \in BOOLEAN,
      registers \in 0..MaxRegisters }

\* a_.OpMov(dest, src) with the saturate flag.
OpMov(dest, src, saturate) == [op |-> "mov", dest |-> dest, src |-> src, saturate |-> saturate]
DestR(index, mask) == [type |-> "r", index |-> index, mask |-> mask]
SrcLU(value) == [type |-> "lu", value |-> value]

\* The register after the guest shader's registers when these are in r#, the
\* first register otherwise.
SystemTempBase(tr) ==
  IF ~tr.is_depth_only_pixel_shader_ /\ ~tr.uses_register_dynamic_addressing
    THEN tr.register_count
    ELSE 0

\* Variant of SystemTempCountAfterPush: one register is counted for a block.
SystemTempCountAfterPushOne(tr, count) == tr.system_temp_count_current_ + 1

SystemTempCountAfterPush(tr, count) == tr.system_temp_count_current_ + count

\* The value PushSystemTemp returns.
PushSystemTempIndex(tr) == tr.system_temp_count_current_ + SystemTempBase(tr)

\* The translator after PushSystemTemp(zero_mask, count).
PushSystemTemp(tr, zero_mask, count) ==
  LET register_index == PushSystemTempIndex(tr)
      current == SystemTempCountAfterPush(tr, count)
      lanes == zero_mask % 16
      moves == IF lanes # 0
                 THEN [i \in 1..count |-> OpMov(DestR(register_index + i - 1, lanes), SrcLU(0), FALSE)]
                 ELSE <<>>
  IN [tr EXCEPT !.system_temp_count_current_ = current,
                !.system_temp_count_max_ = IF @ > current THEN @ ELSE current,
                !.code = @ \o moves,
                !.blocks = Append(@, [first |-> register_index, count |-> count,
                                      depth_before |-> tr.system_temp_count_current_])]

\* Variant of SystemTempCountAfterPop: the count is subtracted as it is.
SystemTempCountAfterPopUnclamped(tr, count) == tr.system_temp_count_current_ - count

SystemTempCountAfterPop(tr, count) ==
  tr.system_temp_count_current_ -
    (IF count < tr.system_temp_count_current_ THEN count ELSE tr.system_temp_count_current_)

\* assert_true(condition): a build that evaluates assertions stops at one that
\* does not hold, another build goes on.
AssertFails(tr, condition) == tr.checked_build /\ ~condition

\* The blocks still held after the count most recently pushed registers are
\* given back.
RECURSIVE ReleaseBlocks(_, _)
ReleaseBlocks(blocks, count) ==
  IF count = 0 \/ blocks = <<>> THEN blocks
  ELSE LET last == blocks[Len(blocks)]
           rest == SubSeq(blocks, 1, Len(blocks) - 1)
       IN IF last.count <= count
            THEN ReleaseBlocks(rest, count - last.count)
            ELSE Append(rest, [last EXCEPT !.count = @ - count])

\* The translator after PopSystemTemp(count).
PopSystemTemp(tr, count) ==
  IF AssertFails(tr, count <= tr.system_temp_count_current_)
    THEN [tr EXCEPT !.asserted = TRUE, !.popped_beyond = TRUE]
    ELSE [tr EXCEPT !.system_temp_count_current_ = SystemTempCountAfterPop(tr, count),
                    !.popped_beyond = @ \/ count > tr.system_temp_count_current_,
                    !.blocks = ReleaseBlocks(@, count)]

PushSystemTempCall(zero_mask, count) ==
  /\ ~translator.asserted
  /\ translator.system_temp_count_current_ + count <= MaxSystemTemps
  /\ translator' =
       [PushSystemTemp([translator EXCEPT !.code = <<>>], zero_mask, count)
          EXCEPT !.call = [op |-> "PushSystemTemp", zero_mask |-> zero_mask,
                           count |-> count, result |-> PushSystemTempIndex(translator)]]
  /\ UNCHANGED <<pipelineCacheVars, enumerator>>

PopSystemTempCall(count) ==
  /\ ~translator.asserted
  /\ translator' =
       [PopSystemTemp([translator EXCEPT !.code = <<>>], count)
          EXCEPT !.call = [op |-> "PopSystemTemp", count |-> count]]
  /\ UNCHANGED <<pipelineCacheVars, enumerator>>

\* The translator is reset for some shader; the pipeline cache is idle.
InitSystemTemps ==
  /\ PipelineCacheStartWith([shaders |-> EmptyFile, pipelines |-> EmptyFile])
  /\ creation_thread_count = 0
  /\ translator \in {TranslatorFor(shader) : shader \in TranslatedShaders}

NextSystemTemps ==
  \/ \E zero_mask \in ZeroMasks, count \in 1..MaxTempCount : PushSystemTempCall(zero_mask, count)
  \/ \E count \in 1..(MaxSystemTemps + 1) : PopSystemTempCall(count)

SpecSystemTemps == InitSystemTemps /\ [][NextSystemTemps]_vars


(***************************************************************************)
(* DxbcShaderTranslator::LoadOperand                                       *)
(***************************************************************************)
\* Storage indices of the operands.
MaxStorageIndex == 2

\* SwizzleSource: kX, kY, kZ, kW, k0, k1 in this order.
SwizzleSources == <<"x", "y", "z", "w", "0", "1">>
\* uint32_t(component) - uint32_t(SwizzleSource::kX)
ComponentIndex(component) == (CHOOSE i \in 1..Len(SwizzleSources) : SwizzleSources[i] = component) - 1
\* component >= SwizzleSource::kX && component <= SwizzleSource::kW
IsXYZW(component) == ComponentIndex(component) \in Lanes

\* InstructionOperand::GetComponent: the component of the lane, the last of
\* the operand's components for a lane beyond them.
GetComponent(operand, i) ==
  operand.components[(IF i < operand.component_count THEN i ELSE operand.component_count - 1) + 1]

\* xe::bit_scan_forward of a mask that is not zero: the lowest lane set.
BitScanForward(mask) == CHOOSE i \in LanesOf(mask) : \A j \in LanesOf(mask) : i <= j

\* ConstantRegisterMap::GetPackedFloatConstantIndex: the number of constants
\* used by the shader below this one, UINT32_MAX for a constant it does not use.
GetPackedFloatConstantIndex(tr, storage_index) ==
  IF storage_index \in tr.float_constants
    THEN Cardinality({c \in tr.float_constants : c < storage_index})
    ELSE UINT32_MAX

\* Lane i of a swizzle of two bits a lane, and the swizzle .xyzw.
SwizzleLane(swizzle, i) == (swizzle \div (4^i)) % 4
kXYZW == 0 + 1 * 4 + 2 * 16 + 3 * 64

\* dxbc::Index: a constant, or a component of a temporary register plus a
\* constant.
StaticIndex(index) == [temp |-> "none", component |-> 0, index_ |-> index]
DynamicIndex(temp, component, index) == [temp |-> temp, component |-> component, index_ |-> index]

\* The index of the operand's storage for its addressing mode.
OperandIndex(storage_addressing_mode, storage_index) ==
  CASE storage_addressing_mode = "kStatic" -> StaticIndex(storage_index)
    [] storage_addressing_mode = "kAddressAbsolute" ->
         DynamicIndex("system_temp_ps_pc_p0_a0_", 3, storage_index)
    [] storage_addressing_mode = "kAddressRelative" ->
         DynamicIndex("system_temp_aL_", 0, storage_index)

\* dxbc::Src of the kinds used: a float literal, r#, x0[#] and a constant
\* buffer element; each starts with the swizzle .xyzw and no modifiers.
Src(type, where) ==
  [type |-> type, where |-> where, swizzle |-> kXYZW,
   is_absolute_value |-> FALSE, is_negated |-> FALSE]
SrcLF(x, y, z, w) == Src("lf", <<x, y, z, w>>)
SrcR(index) == Src("r", index)
SrcX(array, index) == Src("x", [array |-> array, index |-> index])
SrcCB(cbuffer, index) == Src("cb", [cbuffer |-> cbuffer, register |-> "kFloatConstants", index |-> index])
\* Src::Swizzle: the swizzle takes the place of the source's.
SrcSwizzle(src, swizzle) == [src EXCEPT !.swizzle = swizzle]
\* Src::WithModifiers
SrcWithModifiers(src, is_absolute_value, is_negated) ==
  [src EXCEPT !.is_absolute_value = is_absolute_value, !.is_negated = is_negated]

\* The lanes of the temporary register loaded from x0[#]: the components of
\* the needed lanes among the operand's own.
UsedSwizzleComponents(operand, needed_components) ==
  MaskOf({ComponentIndex(GetComponent(operand, i)) :
            i \in {l \in LanesOf(needed_components) : l < operand.component_count}})

\* Variant of LoadOperandSwizzle: every lane selects its own component.
LoadOperandSwizzleOfAllLanes(operand, needed_components, first_needed_component) ==
  LET lane(i) == ComponentIndex(GetComponent(operand, i)) * (4^i)
  IN lane(0) + lane(1) + lane(2) + lane(3)

\* The swizzle: the component of the lane for a needed lane, the component of
\* the first needed lane for another.
LoadOperandSwizzle(operand, needed_components, first_needed_component) ==
  LET lane(i) ==
        ComponentIndex(GetComponent(operand, IF Bit(needed_components, i) = 1
                                               THEN i
                                               ELSE first_needed_component)) * (4^i)
  IN lane(0) + lane(1) + lane(2) + lane(3)

\* Variant of LoadOperandReturns: temp_pushed_out is left set whatever the
\* call did.
LoadOperandReturnsTempPushed(tr, operand, needed_components, temp_pushed_out, src) ==
  [tr EXCEPT !.call = [op |-> "LoadOperand", operand |-> operand,
                       needed_components |-> needed_components, completed |-> TRUE,
                       temp_pushed_out |-> TRUE, result |-> src]]

\* The translator when LoadOperand returns src.
LoadOperandReturns(tr, operand, needed_components, temp_pushed_out, src) ==
  [tr EXCEPT !.call = [op |-> "LoadOperand", operand |-> operand,
                       needed_components |-> needed_components, completed |-> TRUE,
                       temp_pushed_out |-> temp_pushed_out, result |-> src]]

\* The translator when an assertion stops LoadOperand.
LoadOperandStops(tr, operand, needed_components, temp_pushed_out) ==
  [tr EXCEPT !.asserted = TRUE,
             !.call = [op |-> "LoadOperand", operand |-> operand,
                       needed_components |-> needed_components, completed |-> FALSE,
                       temp_pushed_out |-> temp_pushed_out, result |-> SrcLF(0, 0, 0, 0)]]

\* The translator after LoadOperand(operand, needed_components, temp_pushed_out).
LoadOperand(tr, operand, needed_components) ==
  IF needed_components = 0
    THEN LoadOperandReturns(tr, operand, needed_components, FALSE, SrcLF(0, 0, 0, 0))
    ELSE
      LET first_needed_component == BitScanForward(needed_components)
          index == OperandIndex(operand.storage_addressing_mode, operand.storage_index)
          swizzle == LoadOperandSwizzle(operand, needed_components, first_needed_component)
          finish(after, pushed, src) ==
            LoadOperandReturns(after, operand, needed_components, pushed,
                               SrcWithModifiers(SrcSwizzle(src, swizzle),
                                                operand.is_absolute_value,
                                                operand.is_negated))
      IN CASE operand.storage_source = "kRegister" ->
                IF tr.uses_register_dynamic_addressing
                  THEN LET temp == PushSystemTempIndex(tr)
                           pushed == PushSystemTemp(tr, 0, 1)
                           used_swizzle_components ==
                             UsedSwizzleComponents(operand, needed_components)
                           loaded ==
                             [pushed EXCEPT !.code =
                                Append(@, OpMov(DestR(temp, used_swizzle_components),
                                                SrcX(0, index), FALSE))]
                       IN IF AssertFails(tr, used_swizzle_components # 0)
                            THEN LoadOperandStops(pushed, operand, needed_components, TRUE)
                            ELSE finish(loaded, TRUE, SrcR(temp))
                  ELSE IF AssertFails(tr, operand.storage_addressing_mode = "kStatic")
                         THEN LoadOperandStops(tr, operand, needed_components, FALSE)
                         ELSE finish(tr, FALSE, SrcR(index.index_))
           [] operand.storage_source = "kConstantFloat" ->
                LET allocated ==
                      IF tr.cbuffer_index_float_constants_ = kBindingIndexUnallocated
                        THEN [tr EXCEPT !.cbuffer_index_float_constants_ = tr.cbuffer_count_,
                                        !.cbuffer_count_ = @ + 1]
                        ELSE tr
                    float_constant_index ==
                      GetPackedFloatConstantIndex(tr, operand.storage_index)
                    cb(at) == SrcCB(allocated.cbuffer_index_float_constants_, at)
                IN IF operand.storage_addressing_mode = "kStatic"
                     THEN IF AssertFails(tr, float_constant_index # UINT32_MAX)
                            THEN LoadOperandStops(allocated, operand, needed_components, FALSE)
                            ELSE IF float_constant_index = UINT32_MAX
                                   THEN LoadOperandReturns(allocated, operand, needed_components,
                                                           FALSE, SrcLF(0, 0, 0, 0))
                                   ELSE finish(allocated, FALSE,
                                               cb([index EXCEPT !.index_ = float_constant_index]))
                     ELSE IF AssertFails(tr, tr.float_dynamic_addressing)
                            THEN LoadOperandStops(allocated, operand, needed_components, FALSE)
                            ELSE finish(allocated, FALSE, cb(index))
           [] OTHER ->
                IF AssertFails(tr, FALSE)
                  THEN LoadOperandStops(tr, operand, needed_components, FALSE)
                  ELSE LoadOperandReturns(tr, operand, needed_components, FALSE,
                                          SrcLF(0, 0, 0, 0))

\* The shaders LoadOperand is called for: with the registers in r# or in x0,
\* and with none, one or two float constants, addressed dynamically or not.
LoadOperandShaders ==
  { [EmptyShader EXCEPT !.checked_build = checked,
                        !.uses_register_dynamic_addressing = dynamic,
                        !.register_count = MaxRegisters,
                        !.float_constants = constants,
                        !.float_dynamic_addressing = float_dynamic] :
      checked \in BOOLEAN, dynamic \in BOOLEAN,
      constants \in {{}, {1}, {0, MaxStorageIndex}}, float_dynamic \in BOOLEAN }

\* The components of the operands: in order, reversed, with a component used
\* twice, and all the same.
OperandComponents ==
  { <<"x", "y", "z", "w">>, <<"w", "z", "y", "x">>, <<"y", "y", "x", "z">>,
    <<"z", "z", "z", "z">> }

\* The operands of the shader the translator was reset for: a register is
\* addressed dynamically only in a shader with dynamic register addressing, a
\* float constant only in one with dynamic float constant addressing.
Operands(tr) ==
  { operand \in
      [ storage_source : {"kRegister", "kConstantFloat", "kConstantBool"},
        storage_index : {0, MaxStorageIndex},
        storage_addressing_mode : {"kStatic", "kAddressAbsolute", "kAddressRelative"},
        component_count : {1, 2, 4},
        components : OperandComponents,
        is_absolute_value : BOOLEAN,
        is_negated : BOOLEAN ] :
      /\ operand.is_negated => operand.is_absolute_value
      /\ operand.storage_source = "kConstantBool" =>
           /\ operand.storage_addressing_mode = "kStatic"
           /\ operand.component_count = 1
           /\ ~operand.is_absolute_value
      /\ (operand.storage_source = "kRegister"
            /\ operand.storage_addressing_mode # "kStatic") =>
           tr.uses_register_dynamic_addressing
      /\ (operand.storage_source = "kConstantFloat"
            /\ operand.storage_addressing_mode # "kStatic") =>
           tr.float_dynamic_addressing }

\* The call of LoadOperand about to be made.
LoadOperandPending(operand, needed_components) ==
  [op |-> "LoadOperand", operand |-> operand, needed_components |-> needed_components]

LoadOperandCall ==
  /\ ~translator.asserted
  /\ translator.pending.op = "LoadOperand"
  /\ translator' =
       LoadOperand([translator EXCEPT !.code = <<>>, !.pending = NoTranslatorCall],
                   translator.pending.operand, translator.pending.needed_components)
  /\ UNCHANGED <<pipelineCacheVars, enumerator>>

\* The caller holds a temporary register of its own while it loads the operand.
LoadOperandCallerPush ==
  /\ translator.pending.op = "LoadOperand"
  /\ translator.system_temp_count_current_ = 0
  /\ PushSystemTempCall(0, 1)

\* The caller gives back the temporary register of the operand it loaded.
LoadOperandCallerPop ==
  /\ translator.call.op = "LoadOperand"
  /\ translator.call.temp_pushed_out
  /\ PopSystemTempCall(1)

\* The translator is reset for some shader and is about to load one of its
\* operands.
InitLoadOperand ==
  /\ PipelineCacheStartWith([shaders |-> EmptyFile, pipelines |-> EmptyFile])
  /\ creation_thread_count = 0
  /\ \E shader \in LoadOperandShaders :
       \E operand \in Operands(TranslatorFor(shader)), needed_components \in 0..15 :
         translator = [TranslatorFor(shader) EXCEPT
                         !.pending = LoadOperandPending(operand, needed_components)]

NextLoadOperand ==
  \/ LoadOperandCallerPush
  \/ LoadOperandCall
  \/ LoadOperandCallerPop

SpecLoadOperand == InitLoadOperand /\ [][NextLoadOperand]_vars

(***************************************************************************)
(* DxbcShaderTranslator::StoreResult                                       *)
(***************************************************************************)
\* InstructionStorageTarget
StorageTargets ==
  { "kNone", "kRegister", "kInterpolator", "kPosition", "kPointSizeEdgeFlagKillVertex",
    "kExportAddress", "kExportData", "kColor", "kDepth" }

\* InstructionResult::GetUsedWriteMask: the lanes of the write mask the
\* target has.
GetUsedWriteMask(result) ==
  LET target_component_count ==
        CASE result.storage_target = "kNone" -> 0
          [] result.storage_target = "kPointSizeEdgeFlagKillVertex" -> 3
          [] result.storage_target = "kDepth" -> 1
          [] OTHER -> 4
  IN result.original_write_mask % (2^target_component_count)

\* dxbc::Dest: null, r#, x0[#], o# and oDepth; each starts with all lanes
\* written.
Dest(type, where) == [type |-> type, where |-> where, mask |-> 15]
DestNull == Dest("null", 0)
DestX(array, index) == Dest("x", [array |-> array, index |-> index])
DestO(index) == Dest("o", index)
DestODepth == Dest("odepth", 0)
DestRegister(index) == Dest("r", index)
\* Dest::Mask
DestMask(dest, mask) == [dest EXCEPT !.mask = mask]

\* Src::SwizzleSwizzled: a lane of the result is the lane of the source the
\* additional swizzle selects.
SrcSwizzleSwizzled(src, swizzle) ==
  LET lane(i) == SwizzleLane(src.swizzle, SwizzleLane(swizzle, i)) * (4^i)
  IN [src EXCEPT !.swizzle = lane(0) + lane(1) + lane(2) + lane(3)]
\* Src::Select: every lane is the component.
SrcSelect(src, component) == [src EXCEPT !.swizzle = component * (1 + 4 + 16 + 64)]

\* a_.OpOr(dest, src0, src1)
OpOr(dest, src0, src1) == [op |-> "or", dest |-> dest, src |-> src0, src1 |-> src1]

\* Variant of MemExportValid: the register of the allocation is not looked
\* at.
MemExportValidWithoutRegister(tr, temps) ==
  /\ tr.memexport_alloc_current_count_ # 0
  /\ tr.memexport_alloc_current_count_ <= kMaxMemExports

\* The memexport of the current allocation can be written: there is an
\* allocation, it is one of the kMaxMemExports, and it has a register.
MemExportValid(tr, temps) ==
  /\ tr.memexport_alloc_current_count_ # 0
  /\ tr.memexport_alloc_current_count_ <= kMaxMemExports
  /\ temps[tr.memexport_alloc_current_count_ - 1] # UINT32_MAX

\* The destination of the result: dropped for a memexport write that is not
\* valid.
StoreResultDest(tr, result, can_store_memexport_address) ==
  CASE result.storage_target = "kRegister" ->
         IF tr.uses_register_dynamic_addressing
           THEN DestX(0, OperandIndex(result.storage_addressing_mode, result.storage_index))
           ELSE DestRegister(result.storage_index)
    [] result.storage_target = "kInterpolator" ->
         DestO([base |-> "kVSDSOutInterpolators", index |-> result.storage_index])
    [] result.storage_target = "kPosition" -> DestRegister("system_temp_position_")
    [] result.storage_target = "kPointSizeEdgeFlagKillVertex" ->
         DestRegister("system_temp_point_size_edge_flag_kill_vertex_")
    [] result.storage_target = "kExportAddress" ->
         IF can_store_memexport_address
              /\ MemExportValid(tr, tr.system_temps_memexport_address_)
           THEN DestRegister(tr.system_temps_memexport_address_[tr.memexport_alloc_current_count_ - 1])
           ELSE DestNull
    [] result.storage_target = "kExportData" ->
         IF MemExportValid(tr, [i \in 0..(kMaxMemExports - 1) |->
                                  tr.system_temps_memexport_data_[i][result.storage_index]])
           THEN DestRegister(tr.system_temps_memexport_data_[tr.memexport_alloc_current_count_ - 1]
                                                            [result.storage_index])
           ELSE DestNull
    [] result.storage_target = "kColor" ->
         DestRegister([temps |-> "system_temps_color_", index |-> result.storage_index])
    [] result.storage_target = "kDepth" ->
         IF tr.depth_stencil_system_temp_used
           THEN DestRegister("system_temp_depth_stencil_")
           ELSE DestODepth
    [] OTHER -> DestNull

\* The instructions that mark an export or a colour target written.
StoreResultMarks(tr, result) ==
  CASE result.storage_target = "kExportData" ->
         LET memexport_index == tr.memexport_alloc_current_count_ - 1
         IN << OpOr(DestMask(DestRegister("system_temp_memexport_written_"),
                             2^(memexport_index \div 4)),
                    SrcSelect(SrcR("system_temp_memexport_written_"), memexport_index \div 4),
                    SrcLU(2^(result.storage_index + (memexport_index % 4) * 8))) >>
    [] result.storage_target = "kColor" /\ tr.edram_rov_used_ ->
         << OpOr(DestMask(DestRegister("system_temp_rov_params_"), 1),
                 SrcSelect(SrcR("system_temp_rov_params_"), 0),
                 SrcLU(2^(8 + result.storage_index))) >>
    [] OTHER -> <<>>

\* The assertion of the target on the write.
StoreResultAsserted(tr, result, used_write_mask) ==
  CASE result.storage_target = "kRegister" /\ ~tr.uses_register_dynamic_addressing ->
         result.storage_addressing_mode = "kStatic"
    [] result.storage_target = "kPointSizeEdgeFlagKillVertex" -> Bit(used_write_mask, 3) = 0
    [] result.storage_target = "kDepth" -> used_write_mask = 1
    [] OTHER -> TRUE

\* Variant of ConstantMask: only the lanes of the constant 1 are taken for
\* constant.
ConstantOneMask(result, used_write_mask) ==
  MaskOf({i \in LanesOf(used_write_mask) : result.components[i + 1] = "1"})

\* constant_mask: the lanes written whose component is not one of the
\* source's.
ConstantMask(result, used_write_mask) ==
  MaskOf({i \in LanesOf(used_write_mask) : ~IsXYZW(result.components[i + 1])})

\* src_additional_swizzle: the components of the lanes written from the
\* source.
SrcAdditionalSwizzle(result, used_write_mask, constant_mask) ==
  LET lane(i) == IF i \in LanesOf(used_write_mask) \ LanesOf(constant_mask)
                   THEN ComponentIndex(result.components[i + 1]) * (4^i)
                   ELSE 0
  IN lane(0) + lane(1) + lane(2) + lane(3)

\* The moves of the write: one of the source's lanes, one of the constants.
StoreResultMoves(dest, result, src, used_write_mask, is_clamped) ==
  LET constant_mask == ConstantMask(result, used_write_mask)
      constant_1(i) == IF i \in LanesOf(constant_mask) /\ result.components[i + 1] = "1"
                         THEN 1 ELSE 0
  IN (IF used_write_mask # constant_mask
        THEN << OpMov(DestMask(dest, MaskOf(LanesOf(used_write_mask) \ LanesOf(constant_mask))),
                      SrcSwizzleSwizzled(src, SrcAdditionalSwizzle(result, used_write_mask,
                                                                   constant_mask)),
                      is_clamped) >>
        ELSE <<>>)
     \o
     (IF constant_mask # 0
        THEN << OpMov(DestMask(dest, constant_mask),
                      SrcLF(constant_1(0), constant_1(1), constant_1(2), constant_1(3)),
                      FALSE) >>
        ELSE <<>>)

\* The translator after StoreResult(result, src, can_store_memexport_address).
StoreResult(tr, result, src, can_store_memexport_address) ==
  LET used_write_mask == GetUsedWriteMask(result)
      dest == StoreResultDest(tr, result, can_store_memexport_address)
      is_clamped == result.is_clamped \/ result.storage_target = "kDepth"
      done(after, completed) ==
        [after EXCEPT !.call = [op |-> "StoreResult", result |-> result, src |-> src,
                                can_store_memexport_address |-> can_store_memexport_address,
                                used_write_mask |-> used_write_mask,
                                completed |-> completed]]
  IN IF used_write_mask = 0 \/ result.storage_target = "kNone"
       THEN done(tr, TRUE)
       ELSE IF AssertFails(tr, StoreResultAsserted(tr, result, used_write_mask))
              THEN done([tr EXCEPT !.asserted = TRUE], FALSE)
              ELSE IF dest.type = "null"
                     THEN done(tr, TRUE)
                     ELSE done([tr EXCEPT !.code =
                                  @ \o StoreResultMarks(tr, result)
                                    \o StoreResultMoves(dest, result, src, used_write_mask,
                                                        is_clamped)],
                               TRUE)

\* The shaders StoreResult is called for.
StoreResultShaders ==
  { [EmptyShader EXCEPT !.checked_build = checked,
                        !.uses_register_dynamic_addressing = flavour[1],
                        !.edram_rov_used_ = flavour[2],
                        !.depth_stencil_system_temp_used = flavour[3],
                        !.register_count = MaxRegisters] :
      checked \in BOOLEAN,
      flavour \in { <<FALSE, FALSE, FALSE>>, <<TRUE, FALSE, FALSE>>,
                    <<FALSE, TRUE, TRUE>>, <<FALSE, FALSE, TRUE>> } }

\* The memexport allocations a write can meet: none, one with its registers,
\* one without them, and one beyond the kMaxMemExports. The registers of the
\* first export are pushed when the translation starts: the register of the
\* written flags, the address and the data of eM0.
MemExportStates(tr) ==
  LET written == PushSystemTemp(tr, 15, 1)
      address == PushSystemTemp(written, 15, 1)
      data == PushSystemTemp(address, 0, 1)
      allocated ==
        [data EXCEPT !.system_temps_memexport_address_[0] = PushSystemTempIndex(written),
                     !.system_temps_memexport_data_[0][0] = PushSystemTempIndex(address)]
  IN { tr,
       [allocated EXCEPT !.memexport_alloc_current_count_ = 1],
       [tr EXCEPT !.memexport_alloc_current_count_ = 1],
       [allocated EXCEPT !.memexport_alloc_current_count_ = kMaxMemExports + 1] }

\* The per-lane selections of the results: the source's lanes, constants, and
\* mixtures of both.
ResultComponents ==
  { <<"x", "y", "z", "w">>, <<"w", "w", "x", "y">>, <<"0", "0", "0", "0">>,
    <<"1", "0", "1", "1">>, <<"x", "1", "z", "0">>, <<"0", "y", "1", "x">> }

\* The results of the shader the translator was reset for: a register is
\* addressed dynamically only in a shader with dynamic register addressing.
Results(tr) ==
  { result \in
      [ storage_target : StorageTargets,
        storage_index : {0, MaxStorageIndex},
        storage_addressing_mode : {"kStatic", "kAddressAbsolute", "kAddressRelative"},
        original_write_mask : 0..15,
        components : ResultComponents,
        is_clamped : BOOLEAN ] :
      result.storage_addressing_mode # "kStatic" =>
        (result.storage_target = "kRegister" /\ tr.uses_register_dynamic_addressing) }

\* The call of StoreResult about to be made.
StoreResultPending(result, src, can_store_memexport_address) ==
  [op |-> "StoreResult", result |-> result, src |-> src,
   can_store_memexport_address |-> can_store_memexport_address]

StoreResultCall ==
  /\ ~translator.asserted
  /\ translator.pending.op = "StoreResult"
  /\ translator' =
       StoreResult([translator EXCEPT !.code = <<>>, !.pending = NoTranslatorCall],
                   translator.pending.result, translator.pending.src,
                   translator.pending.can_store_memexport_address)
  /\ UNCHANGED <<pipelineCacheVars, enumerator>>

\* The translator is in the body of some shader and is about to store a
\* result.
InitStoreResult ==
  /\ PipelineCacheStartWith([shaders |-> EmptyFile, pipelines |-> EmptyFile])
  /\ creation_thread_count = 0
  /\ \E shader \in StoreResultShaders :
       \E tr \in MemExportStates(TranslatorFor(shader)) :
         \E result \in Results(tr), can_store_memexport_address \in BOOLEAN :
           translator =
             [tr EXCEPT !.pending =
                StoreResultPending(result,
                                   SrcSwizzle(SrcR(tr.register_count), kXYZW),
                                   can_store_memexport_address)]

NextStoreResult == StoreResultCall

SpecStoreResult == InitStoreResult /\ [][NextStoreResult]_vars

(***************************************************************************)
(* C17: the swizzle LoadOperand produces                                   *)
(***************************************************************************)
\* LoadOperand has returned.
LoadOperandReturned == translator.call.op = "LoadOperand" /\ translator.call.completed

\* The component a lane of the result is to select: the operand's component
\* for the lane when the lane is needed, the operand's component for the
\* lowest needed lane otherwise.
NeededComponent(operand, needed_components, i) ==
  LET lowest == CHOOSE l \in LanesOf(needed_components) :
                  \A other \in LanesOf(needed_components) : l <= other
  IN ComponentIndex(GetComponent(operand, IF i \in LanesOf(needed_components) THEN i ELSE lowest))

\* The source returned refers to the operand with the swizzle of the needed
\* components.
LoadOperandSwizzled(c) ==
  /\ c.result.type # "lf"
  /\ \A i \in Lanes :
       SwizzleLane(c.result.swizzle, i) = NeededComponent(c.operand, c.needed_components, i)

\* The source returned is the literal 0.0 and no temporary register was pushed
\* for it.
LoadOperandZero(c) ==
  /\ c.result = SrcLF(0, 0, 0, 0)
  /\ ~c.temp_pushed_out

\* A step of LoadOperand with an empty mask leaves the temporary registers
\* and the emitted code alone.
EmptyMaskPushesNothing ==
  (translator.pending.op = "LoadOperand" /\ translator.pending.needed_components = 0
     /\ translator'.call.op = "LoadOperand") =>
    /\ translator'.system_temp_count_current_ = translator.system_temp_count_current_
    /\ translator'.system_temp_count_max_ = translator.system_temp_count_max_
    /\ translator'.blocks = translator.blocks
    /\ translator'.code = <<>>

\* The operand is read from a register, or from a float constant that is
\* addressed dynamically or has a packed index in the constant register map.
OperandHasStorage(tr, operand) ==
  \/ operand.storage_source = "kRegister"
  \/ /\ operand.storage_source = "kConstantFloat"
     /\ \/ operand.storage_addressing_mode # "kStatic"
        \/ GetPackedFloatConstantIndex(tr, operand.storage_index) # UINT32_MAX

\* C17 as stated: for every operand and every mask of needed components
\* LoadOperand returns a source whose swizzle lane i selects the operand's
\* component for lane i when bit i of the mask is set and the operand's
\* component for the lowest set lane otherwise; with the mask zero it returns
\* the literal 0.0 and pushes no temporary register.
C17_EveryOperandSwizzled ==
  /\ [](LoadOperandReturned =>
          IF translator.call.needed_components = 0
            THEN LoadOperandZero(translator.call)
            ELSE LoadOperandSwizzled(translator.call))
  /\ [][EmptyMaskPushesNothing]_vars

\* C17 as the code has it: the swizzle is produced for an operand read from a
\* register or from a float constant with storage; for a float constant
\* without a packed index and for any other storage source the literal 0.0 is
\* returned whatever the mask, as it is for an empty mask, and no temporary
\* register is pushed for it.
C17_OperandWithStorageSwizzled ==
  /\ [](LoadOperandReturned =>
          IF translator.call.needed_components # 0
               /\ OperandHasStorage(translator, translator.call.operand)
            THEN LoadOperandSwizzled(translator.call)
            ELSE LoadOperandZero(translator.call))
  /\ [][EmptyMaskPushesNothing]_vars

\* A reversed operand was loaded from x0 through a temporary register with
\* the two middle lanes needed, and an operand was loaded with no lane needed.
C17_MiddleLanesLoaded ==
  /\ LoadOperandReturned
  /\ translator.call.needed_components = 2 + 4
  /\ translator.call.operand.components = <<"w", "z", "y", "x">>
  /\ translator.call.operand.component_count = 4
  /\ translator.call.temp_pushed_out
  /\ translator.call.result.type = "r"
  /\ SwizzleLane(translator.call.result.swizzle, 0) = ComponentIndex("z")
  /\ SwizzleLane(translator.call.result.swizzle, 3) = ComponentIndex("z")
  /\ SwizzleLane(translator.call.result.swizzle, 2) = ComponentIndex("y")

(***************************************************************************)
(* C18: the moves StoreResult emits                                        *)
(***************************************************************************)
\* StoreResult has returned.
StoreResultReturned == translator.call.op = "StoreResult" /\ translator.call.completed

IsMov(instruction) == instruction.op = "mov"

\* The lanes of the used write mask written from the source, and those
\* written with a constant.
SourceLanes(c) == {i \in LanesOf(c.used_write_mask) : c.result.components[i + 1] \in {"x", "y", "z", "w"}}
ConstantLanes(c) == {i \in LanesOf(c.used_write_mask) : c.result.components[i + 1] \in {"0", "1"}}

\* The moves split the write: at most two, with disjoint destination masks
\* that together are the used write mask; first the move of the lanes taken
\* from the source when there are any, then the move of the literal 0 or 1 of
\* every constant lane when there are any.
MovesSplitWrite(moves, c) ==
  /\ Len(moves) <= 2
  /\ \A j, k \in 1..Len(moves) :
       j < k => LanesOf(moves[j].dest.mask) \cap LanesOf(moves[k].dest.mask) = {}
  /\ UNION {LanesOf(moves[k].dest.mask) : k \in 1..Len(moves)} = LanesOf(c.used_write_mask)
  /\ Len(moves) = (IF SourceLanes(c) # {} THEN 1 ELSE 0) + (IF ConstantLanes(c) # {} THEN 1 ELSE 0)
  /\ SourceLanes(c) # {} =>
       /\ moves[1].src.type = c.src.type
       /\ LanesOf(moves[1].dest.mask) = SourceLanes(c)
  /\ ConstantLanes(c) # {} =>
       LET constants == moves[Len(moves)]
       IN /\ constants.src.type = "lf"
          /\ LanesOf(constants.dest.mask) = ConstantLanes(c)
          /\ \A i \in ConstantLanes(c) :
               constants.src.where[i + 1] = (IF c.result.components[i + 1] = "1" THEN 1 ELSE 0)

\* The write is one to a memexport register the current allocation does not
\* have.
MemExportDropped(tr, c) ==
  \/ /\ c.result.storage_target = "kExportAddress"
     /\ ~(c.can_store_memexport_address /\ MemExportValid(tr, tr.system_temps_memexport_address_))
  \/ /\ c.result.storage_target = "kExportData"
     /\ ~MemExportValid(tr, [i \in 0..(kMaxMemExports - 1) |->
                               tr.system_temps_memexport_data_[i][c.result.storage_index]])

\* C18 as stated: for every write mask and per-lane selection StoreResult
\* emits at most two moves with disjoint destination masks whose union is the
\* used write mask, the move of the lanes taken from the swizzled source first
\* and the move of the literal 0 or 1 to the constant lanes second, and it
\* emits nothing when the used write mask is empty or the target is none.
C18_WriteSplitInTwoMoves ==
  StoreResultReturned =>
    IF translator.call.used_write_mask = 0 \/ translator.call.result.storage_target = "kNone"
      THEN translator.code = <<>>
      ELSE MovesSplitWrite(SelectSeq(translator.code, IsMov), translator.call)

\* C18 as the code has it: the write is split in the two moves unless the
\* used write mask is empty, the target is none, or the target is a memexport
\* address or data register that the current allocation does not have; in
\* these cases nothing is emitted.
C18_ValidWriteSplitInTwoMoves ==
  StoreResultReturned =>
    IF \/ translator.call.used_write_mask = 0
       \/ translator.call.result.storage_target = "kNone"
       \/ MemExportDropped(translator, translator.call)
      THEN translator.code = <<>>
      ELSE MovesSplitWrite(SelectSeq(translator.code, IsMov), translator.call)

\* A write of two lanes of the source and two constants to the data of a
\* memexport was stored with two moves after the export was marked written.
C18_MixedWriteStored ==
  /\ StoreResultReturned
  /\ translator.call.result.storage_target = "kExportData"
  /\ translator.call.result.components = <<"x", "1", "z", "0">>
  /\ translator.call.used_write_mask = 15
  /\ Len(translator.code) = 3
  /\ translator.code[2].dest.mask = 1 + 4
  /\ translator.code[3].dest.mask = 2 + 8
  /\ translator.code[3].src.where = <<0, 1, 0, 0>>

(***************************************************************************)
(* C19: system temporary registers are handed out as a stack               *)
(***************************************************************************)
\* The registers of a block, and the registers of the blocks still held.
BlockRegisters(block) == block.first .. (block.first + block.count - 1)
LiveRegisters(tr) == UNION {BlockRegisters(tr.blocks[k]) : k \in 1..Len(tr.blocks)}

\* The blocks still held lie above the guest's registers at the base offset plus
\* the depth they were pushed at, later blocks never start below earlier ones,
\* no two of them share a register, and together they are the registers from
\* the base offset up to the current pointer.
SystemTempsStacked(tr) ==
  /\ \A k \in 1..Len(tr.blocks) :
       tr.blocks[k].first = SystemTempBase(tr) + tr.blocks[k].depth_before
  /\ \A j, k \in 1..Len(tr.blocks) :
       j < k => /\ tr.blocks[j].first <= tr.blocks[k].first
                /\ BlockRegisters(tr.blocks[j]) \cap BlockRegisters(tr.blocks[k]) = {}
  /\ LiveRegisters(tr) =
       SystemTempBase(tr) .. (SystemTempBase(tr) + tr.system_temp_count_current_ - 1)

\* A step of PushSystemTemp returns the base offset plus the depth before it
\* and takes count registers.
PushReturnsBasePlusDepth ==
  translator'.call.op = "PushSystemTemp" =>
    /\ translator'.call.result = SystemTempBase(translator) + translator.system_temp_count_current_
    /\ translator'.system_temp_count_current_ =
         translator.system_temp_count_current_ + translator'.call.count

\* A step of PopSystemTemp that does not underflow lowers the pointer by count, and
\* when it gives back whole blocks the pointer is again what it was before the
\* first of them was pushed.
PopRestoresPointer ==
  (translator'.call.op = "PopSystemTemp" /\ ~translator'.asserted
     /\ translator'.call.count <= translator.system_temp_count_current_) =>
    /\ translator'.system_temp_count_current_ =
         translator.system_temp_count_current_ - translator'.call.count
    /\ LET held == Len(translator'.blocks)
       IN (held < Len(translator.blocks)
             /\ translator'.blocks = SubSeq(translator.blocks, 1, held)) =>
            translator'.system_temp_count_current_ = translator.blocks[held + 1].depth_before

\* C19: over every sequence of PushSystemTemp and PopSystemTemp calls a
\* push returns the base offset plus the current depth as the first register of
\* a contiguous block, so that successive pushes never return a lower index and
\* the blocks held never overlap; a pop gives back the most recently pushed
\* registers; and after a balanced sequence the current pointer is what it was
\* before the sequence.
C19_SystemTempsAreAStack ==
  /\ [](SystemTempsStacked(translator))
  /\ [][PushReturnsBasePlusDepth /\ PopRestoresPointer]_vars

\* A block of two registers above the registers of the guest is held after a
\* second block was pushed above it and given back by a pop.
C19_BlocksPushedAndPopped ==
  /\ Len(translator.blocks) = 1
  /\ translator.blocks[1].count = 2
  /\ SystemTempBase(translator) > 0
  /\ translator.system_temp_count_max_ > translator.system_temp_count_current_
  /\ translator.call.op = "PopSystemTemp"

(***************************************************************************)
(* C20: PopSystemTemp of more registers than are allocated                 *)
(***************************************************************************)
\* A step of PopSystemTemp with a count above the current depth.
PopUnderflows ==
  /\ translator'.call.op = "PopSystemTemp"
  /\ translator # translator'
  /\ translator'.call.count > translator.system_temp_count_current_

\* C20 as stated: a PopSystemTemp with a count greater than the current
\* allocation depth fails the assertion, and the current pointer is neither
\* wrapped below zero nor clamped without the failure.
C20_PopUnderflowAsserts ==
  [][PopUnderflows => translator'.asserted]_vars

\* C20 as the code has it: a PopSystemTemp with a count greater than the
\* current allocation depth fails the assertion in a build that evaluates
\* assertions and leaves the pointer as it was; in any other build it sets the
\* pointer to zero without an error; the pointer never wraps below zero.
C20_PopUnderflowAssertsOrClamps ==
  /\ [](translator.system_temp_count_current_ \in 0..MaxSystemTemps)
  /\ [][PopUnderflows =>
          IF translator.checked_build
            THEN /\ translator'.asserted
                 /\ translator'.system_temp_count_current_ = translator.system_temp_count_current_
            ELSE /\ ~translator'.asserted
                 /\ translator'.system_temp_count_current_ = 0]_vars

\* A pop of more registers than were held went through without an error
\* while registers were held.
C20_PopClamped ==
  /\ translator.call.op = "PopSystemTemp"
  /\ ~translator.asserted
  /\ translator.system_temp_count_max_ > 0
  /\ translator.call.count > translator.system_temp_count_max_
  /\ translator.system_temp_count_current_ = 0

(***************************************************************************)
(* DxbcShaderTranslator: the control flow of a translation. The guest      *)
(* shader's control flow instructions are handed to the translator one     *)
(* handler call at a time; the code the calls emit is gathered in          *)
(* shader_code_.                                                           *)
(***************************************************************************)
\* The flow control instructions of the emitted code.
OpIf(test_nonzero, src) == [op |-> "if", test_nonzero |-> test_nonzero, src |-> src]
OpElse == [op |-> "else"]
OpEndIf == [op |-> "endif"]
OpLoop == [op |-> "loop"]
OpEndLoop == [op |-> "endloop"]
OpBreak == [op |-> "break"]
OpContinue == [op |-> "continue"]
OpSwitch(src) == [op |-> "switch", src |-> src]
OpCase(src) == [op |-> "case", src |-> src]
OpEndSwitch == [op |-> "endswitch"]
OpRet == [op |-> "ret"]
\* The integer instructions of the emitted code.
OpAnd(dest, src0, src1) == [op |-> "and", dest |-> dest, src |-> src0, src1 |-> src1]
OpUGE(dest, src0, src1) == [op |-> "uge", dest |-> dest, src |-> src0, src1 |-> src1]
OpIAdd(dest, src0, src1) == [op |-> "iadd", dest |-> dest, src |-> src0, src1 |-> src1]
OpUBFE(dest, width, offset, src) == [op |-> "ubfe", dest |-> dest, width |-> width, offset |-> offset, src |-> src]
OpIBFE(dest, width, offset, src) == [op |-> "ibfe", dest |-> dest, width |-> width, offset |-> offset, src |-> src]
OpMovC(dest, test, src_nz, src_z) == [op |-> "movc", dest |-> dest, test |-> test, src |-> src_nz, src1 |-> src_z]

\* dxbc::Src::kXXXX and its relatives, and a register read with one of them.
kXXXX == 0
kYYYY == 1 * (1 + 4 + 16 + 64)
kZZZZ == 2 * (1 + 4 + 16 + 64)
SrcRSwizzled(index, swizzle) == SrcSwizzle(SrcR(index), swizzle)
\* A vector of the bool and loop constants buffer.
SrcCBBoolLoop(cbuffer, index) == Src("cb", [cbuffer |-> cbuffer, register |-> "kBoolLoopConstants", index |-> index])

\* The instructions are appended to the code of the call.
Emit(tr, instructions) == [tr EXCEPT !.code = @ \o instructions]

\* cbuffer_index_bool_loop_constants_ = cbuffer_count_++ unless allocated.
AllocateBoolLoopConstants(tr) ==
  IF tr.cbuffer_index_bool_loop_constants_ = kBindingIndexUnallocated
    THEN [tr EXCEPT !.cbuffer_index_bool_loop_constants_ = tr.cbuffer_count_,
                    !.cbuffer_count_ = @ + 1]
    ELSE tr

\* Variant of CloseInstructionPredication: the `if` is taken for closed
\* and no `endif` is emitted.
CloseInstructionPredicationWithoutEndIf(tr) ==
  [tr EXCEPT !.cf_instruction_predicate_if_open_ = FALSE]

CloseInstructionPredication(tr) ==
  IF tr.cf_instruction_predicate_if_open_
    THEN Emit([tr EXCEPT !.cf_instruction_predicate_if_open_ = FALSE], <<OpEndIf>>)
    ELSE tr

\* Variant of CloseExecConditionals: only the block of a predicated exec is
\* closed.
CloseExecConditionalsOfPredicate(tr) ==
  LET closed == CloseInstructionPredication(tr)
      ended == IF closed.cf_exec_predicated_
                 THEN Emit([closed EXCEPT !.cf_exec_predicated_ = FALSE], <<OpEndIf>>)
                 ELSE closed
  IN [ended EXCEPT !.cf_exec_predicate_written_ = FALSE]

CloseExecConditionals(tr) ==
  LET closed == CloseInstructionPredication(tr)
      ended == IF closed.cf_exec_bool_constant_ # kCfExecBoolConstantNone \/ closed.cf_exec_predicated_
                 THEN Emit([closed EXCEPT !.cf_exec_bool_constant_ = kCfExecBoolConstantNone,
                                          !.cf_exec_predicated_ = FALSE],
                           <<OpEndIf>>)
                 ELSE closed
  IN [ended EXCEPT !.cf_exec_predicate_written_ = FALSE]

\* Variant of ExecMerges: a conditional exec merges with any conditional exec
\* of the same expected value.
ExecMergesAnyConstant(tr, type, bool_constant_index, condition) ==
  CASE type = "kConditional" ->
         /\ tr.cf_exec_bool_constant_ # kCfExecBoolConstantNone
         /\ tr.cf_exec_bool_constant_condition_ = condition
    [] type = "kPredicated" ->
         /\ ~tr.cf_exec_predicate_written_
         /\ tr.cf_exec_predicated_
         /\ tr.cf_exec_predicate_condition_ = condition
    [] OTHER ->
         /\ tr.cf_exec_bool_constant_ = kCfExecBoolConstantNone
         /\ ~tr.cf_exec_predicated_

\* Variant of ExecMerges: an exec or a jump never merges.
ExecNeverMerges(tr, type, bool_constant_index, condition) == FALSE

\* The new exec, or the jump, can be merged with the previous exec.
ExecMerges(tr, type, bool_constant_index, condition) ==
  CASE type = "kConditional" ->
         /\ tr.cf_exec_bool_constant_ = bool_constant_index
         /\ tr.cf_exec_bool_constant_condition_ = condition
    [] type = "kPredicated" ->
         /\ ~tr.cf_exec_predicate_written_
         /\ tr.cf_exec_predicated_
         /\ tr.cf_exec_predicate_condition_ = condition
    [] OTHER ->
         /\ tr.cf_exec_bool_constant_ = kCfExecBoolConstantNone
         /\ ~tr.cf_exec_predicated_

\* The check of the bool constant and the `if` of a conditional exec.
OpenConditionalExec(tr, bool_constant_index, condition) ==
  LET pushed == PushSystemTemp(tr, 0, 1)
      bool_constant_test_temp == PushSystemTempIndex(tr)
      allocated == AllocateBoolLoopConstants(pushed)
      tested ==
        Emit(allocated,
             << OpAnd(DestR(bool_constant_test_temp, 1),
                      SrcSelect(SrcCBBoolLoop(allocated.cbuffer_index_bool_loop_constants_,
                                              bool_constant_index \div 128),
                                (bool_constant_index \div 32) % 4),
                      SrcLU(2^(bool_constant_index % 32))),
                OpIf(condition, SrcRSwizzled(bool_constant_test_temp, kXXXX)) >>)
  IN [PopSystemTemp(tested, 1) EXCEPT !.cf_exec_bool_constant_ = bool_constant_index,
                                      !.cf_exec_bool_constant_condition_ = condition]

\* The `if` of a predicated exec.
OpenPredicatedExec(tr, condition) ==
  [Emit(tr, <<OpIf(condition, SrcRSwizzled(tr.system_temp_ps_pc_p0_a0_, kZZZZ))>>)
     EXCEPT !.cf_exec_predicated_ = TRUE,
            !.cf_exec_predicate_condition_ = condition]

UpdateExecConditionalsAndEmitDisassembly(tr, type, bool_constant_index, condition) ==
  IF ExecMerges(tr, type, bool_constant_index, condition)
    THEN tr
    ELSE LET closed == CloseExecConditionals(tr)
         IN CASE type = "kConditional" -> OpenConditionalExec(closed, bool_constant_index, condition)
              [] type = "kPredicated" -> OpenPredicatedExec(closed, condition)
              [] OTHER -> closed

JumpToLabel(tr, address) ==
  Emit(tr, <<OpMov(DestR(tr.system_temp_ps_pc_p0_a0_, 2), SrcLU(address), FALSE), OpContinue>>)

SrcLI(value) == [type |-> "li", value |-> value]

\* ProcessLabel(cf_index), with the `switch` and with the `if` form of the
\* control flow.
ProcessLabel(tr, cf_index) ==
  IF cf_index = 0 THEN tr
  ELSE LET closed == CloseExecConditionals(tr)
       IN IF tr.use_switch_for_control_flow
            THEN Emit(JumpToLabel(closed, cf_index), <<OpBreak, OpCase(SrcLU(cf_index))>>)
            ELSE LET ended == Emit(closed, <<OpEndIf>>)
                     test_temp == PushSystemTempIndex(ended)
                     tested ==
                       Emit(PushSystemTemp(ended, 0, 1),
                            << OpUGE(DestR(test_temp, 1), SrcLU(cf_index),
                                     SrcRSwizzled(tr.system_temp_ps_pc_p0_a0_, kYYYY)),
                               OpIf(TRUE, SrcRSwizzled(test_temp, kXXXX)) >>)
                 IN PopSystemTemp(tested, 1)

ProcessExecInstructionBegin(tr, instr) ==
  UpdateExecConditionalsAndEmitDisassembly(tr, instr.type, instr.bool_constant_index, instr.condition)

\* An instruction of the exec that writes the predicate register: the write
\* is remembered and the instruction's own predicate check is closed.
ProcessAluInstructionWritingPredicate(tr) ==
  CloseInstructionPredication(
    [Emit(tr, <<OpMov(DestR(tr.system_temp_ps_pc_p0_a0_, 4), SrcLU(0), FALSE)>>)
       EXCEPT !.cf_exec_predicate_written_ = TRUE])

ProcessExecInstructionEnd(tr, instr) ==
  IF instr.is_end
    THEN LET closed == CloseInstructionPredication(tr)
         IN IF tr.use_switch_for_control_flow
              THEN Emit(closed, <<OpMov(DestR(tr.system_temp_ps_pc_p0_a0_, 2), SrcLU(UINT32_MAX), FALSE),
                                  OpContinue>>)
              ELSE Emit(closed, <<OpBreak>>)
    ELSE tr

\* The vector and the component of a loop constant.
LoopConstantSrc(tr, loop_constant_index) ==
  SrcSelect(SrcCBBoolLoop(tr.cbuffer_index_bool_loop_constants_, 2 + (loop_constant_index \div 4)),
            loop_constant_index % 4)

\* Variant of LoopStartSkip: the loop is entered whatever its count is.
LoopStartNoSkip(tr, instr) == tr

\* The end of ProcessLoopStartInstruction: the loop is skipped when its
\* count is 0.
LoopStartSkip(tr, instr) ==
  Emit(JumpToLabel(Emit(tr, <<OpIf(FALSE, SrcRSwizzled(tr.system_temp_loop_count_, kXXXX))>>),
                   instr.loop_skip_address),
       <<OpEndIf>>)

ProcessLoopStartInstruction(tr, instr) ==
  LET allocated == AllocateBoolLoopConstants(CloseExecConditionals(tr))
      loop_constant_src == LoopConstantSrc(allocated, instr.loop_constant_index)
      count == << OpMov(DestR(tr.system_temp_loop_count_, 14),
                        SrcRSwizzled(tr.system_temp_loop_count_, 144), FALSE),
                  OpAnd(DestR(tr.system_temp_loop_count_, 1), loop_constant_src, SrcLU(255)) >>
      aL == << OpMov(DestR(tr.system_temp_aL_, IF instr.is_repeat THEN 15 ELSE 14),
                     SrcRSwizzled(tr.system_temp_aL_, 144), FALSE) >>
            \o (IF instr.is_repeat THEN <<>>
                ELSE <<OpUBFE(DestR(tr.system_temp_aL_, 1), SrcLU(8), SrcLU(8), loop_constant_src)>>)
  IN LoopStartSkip(Emit(allocated, count \o aL), instr)

\* Variant of LoopEndStep: the step is taken from the bits of the count.
LoopEndStepFromCount(tr, instr, aL_add_temp) ==
  << OpIBFE(DestR(aL_add_temp, 1), SrcLU(8), SrcLU(0),
            LoopConstantSrc(tr, instr.loop_constant_index)),
     OpIAdd(DestR(tr.system_temp_aL_, 1), SrcRSwizzled(tr.system_temp_aL_, kXXXX),
            SrcRSwizzled(aL_add_temp, kXXXX)) >>

\* The step of the loop is added to aL.
LoopEndStep(tr, instr, aL_add_temp) ==
  << OpIBFE(DestR(aL_add_temp, 1), SrcLU(8), SrcLU(16),
            LoopConstantSrc(tr, instr.loop_constant_index)),
     OpIAdd(DestR(tr.system_temp_aL_, 1), SrcRSwizzled(tr.system_temp_aL_, kXXXX),
            SrcRSwizzled(aL_add_temp, kXXXX)) >>

\* The break case of the loop end: the counter and aL of the loop are taken
\* off their stacks.
LoopEndBreak(tr) ==
  << OpMov(DestR(tr.system_temp_loop_count_, 7), SrcRSwizzled(tr.system_temp_loop_count_, 57), FALSE),
     OpMov(DestR(tr.system_temp_loop_count_, 8), SrcLU(0), FALSE),
     OpMov(DestR(tr.system_temp_aL_, 7), SrcRSwizzled(tr.system_temp_aL_, 57), FALSE),
     OpMov(DestR(tr.system_temp_aL_, 8), SrcLI(0), FALSE) >>

ProcessLoopEndInstruction(tr, instr) ==
  LET closed == CloseExecConditionals(tr)
      decremented ==
        Emit(closed, <<OpIAdd(DestR(tr.system_temp_loop_count_, 1),
                              SrcRSwizzled(tr.system_temp_loop_count_, kXXXX), SrcLI(0 - 1))>>)
      count == SrcRSwizzled(tr.system_temp_loop_count_, kXXXX)
      p0 == SrcRSwizzled(tr.system_temp_ps_pc_p0_a0_, kZZZZ)
      break_case_temp == PushSystemTempIndex(decremented)
      tested ==
        IF instr.is_predicated_break
          THEN PopSystemTemp(
                 Emit(PushSystemTemp(decremented, 0, 1),
                      << IF instr.predicate_condition
                           THEN OpMovC(DestR(break_case_temp, 1), p0, SrcLU(0), count)
                           ELSE OpMovC(DestR(break_case_temp, 1), p0, count, SrcLU(0)),
                         OpIf(FALSE, SrcRSwizzled(break_case_temp, kXXXX)) >>),
                 1)
          ELSE Emit(decremented, <<OpIf(FALSE, count)>>)
      broken == Emit(tested, LoopEndBreak(tr) \o <<OpElse>>)
      aL_add_temp == PushSystemTempIndex(broken)
      allocated == AllocateBoolLoopConstants(PushSystemTemp(broken, 0, 1))
      stepped == PopSystemTemp(Emit(allocated, LoopEndStep(allocated, instr, aL_add_temp)), 1)
  IN Emit(JumpToLabel(stepped, instr.loop_body_address), <<OpEndIf>>)

ProcessJumpInstruction(tr, instr) ==
  LET type == CASE instr.type = "kConditional" -> "kConditional"
                [] instr.type = "kPredicated" -> "kPredicated"
                [] OTHER -> "kUnconditional"
      updated == UpdateExecConditionalsAndEmitDisassembly(tr, type, instr.bool_constant_index,
                                                          instr.condition)
  IN JumpToLabel(CloseInstructionPredication(updated), instr.target_address)

ProcessAllocInstruction(tr, instr) ==
  IF instr.type = "kMemory"
    THEN [tr EXCEPT !.memexport_alloc_current_count_ = @ + 1]
    ELSE tr

(***************************************************************************)
(* DxbcShaderTranslator: the prologue and the epilogue of a translation.   *)
(* Of the code they emit, the model keeps the zeroing of the registers     *)
(* pushed, the frame of the main loop, and one line for every other        *)
(* stretch of instructions.                                                *)
(***************************************************************************)
\* xenos::kMaxInterpolators
kMaxInterpolators == 16

\* The host vertex shader types with a case in StartVertexOrDomainShader, and
\* a type without one.
HostVertexShaderTypes ==
  { "kVertex", "kTriangleDomainCPIndexed", "kTriangleDomainPatchIndexed",
    "kQuadDomainCPIndexed", "kQuadDomainPatchIndexed" }
kLineDomainCPIndexed == "kLineDomainCPIndexed"

\* A stretch of emitted instructions that uses no register but those named.
Stretch(name) == [op |-> "stretch", name |-> name]

\* A register is pushed and its index kept in the field.
PushNamed(tr, field, zero_mask) ==
  [PushSystemTemp(tr, zero_mask, 1) EXCEPT ![field] = PushSystemTempIndex(tr)]

\* PopSystemTemp() called the number of times.
RECURSIVE PopTimes(_, _)
PopTimes(tr, times) ==
  IF times = 0 THEN tr ELSE PopTimes(PopSystemTemp(tr, 1), times - 1)

\* A stretch that needs an own register when the guest registers are
\* addressed dynamically.
StretchWithTemp(tr, name) ==
  IF tr.uses_register_dynamic_addressing
    THEN PopSystemTemp(Emit(PushSystemTemp(tr, 0, 1), <<Stretch(name)>>), 1)
    ELSE Emit(tr, <<Stretch(name)>>)

\* assert_true(condition) inside a handler.
AssertTrue(tr, condition) ==
  IF AssertFails(tr, condition) THEN [tr EXCEPT !.asserted = TRUE] ELSE tr

\* EmitTranslationError(message): the message is kept with the translation.
EmitTranslationError(tr, message) ==
  [tr EXCEPT !.translation_errors = Append(@, message)]

\* The color targets the shader writes, from the first.
ColorTargetsWritten(tr) == {i \in 0..3 : Bit(tr.writes_color_targets, i) = 1}

RECURSIVE PushColorTargets(_, _)
PushColorTargets(tr, i) ==
  IF i > 3 THEN tr
  ELSE IF i \in ColorTargetsWritten(tr)
         THEN PushColorTargets(
                [PushSystemTemp(tr, 15, 1) EXCEPT !.system_temps_color_[i] = PushSystemTempIndex(tr)],
                i + 1)
         ELSE PushColorTargets(tr, i + 1)

\* The registers of the data of memexport i, for the eM# left in the mask.
RECURSIVE PushMemExportData(_, _, _)
PushMemExportData(tr, i, memexport_alloc_written) ==
  IF memexport_alloc_written = 0 THEN tr
  ELSE LET memexport_data_index ==
             CHOOSE eM \in MemExportData :
               /\ Bit(memexport_alloc_written, eM) = 1
               /\ \A lower \in 0..(eM - 1) : Bit(memexport_alloc_written, lower) = 0
       IN PushMemExportData(
            [PushSystemTemp(tr, 0, 1)
               EXCEPT !.system_temps_memexport_data_[i][memexport_data_index] = PushSystemTempIndex(tr)],
            i, memexport_alloc_written - 2^memexport_data_index)

RECURSIVE PushMemExports(_, _)
PushMemExports(tr, i) ==
  IF i >= kMaxMemExports THEN tr
  ELSE IF tr.memexport_eM_written[i] = 0 THEN PushMemExports(tr, i + 1)
  ELSE LET written == IF tr.system_temp_memexport_written_ = UINT32_MAX
                        THEN PushNamed(tr, "system_temp_memexport_written_", 15)
                        ELSE tr
           address == [PushSystemTemp(written, 15, 1)
                         EXCEPT !.system_temps_memexport_address_[i] = PushSystemTempIndex(written)]
       IN PushMemExports(PushMemExportData(address, i, tr.memexport_eM_written[i]), i + 1)

\* The registers of the translated code.
PushTranslatedCodeTemps(tr) ==
  LET result == PushNamed(tr, "system_temp_result_", 0)
      ps_pc_p0_a0 == PushNamed(result, "system_temp_ps_pc_p0_a0_", 15)
      aL == PushNamed(ps_pc_p0_a0, "system_temp_aL_", 15)
      loop_count == PushNamed(aL, "system_temp_loop_count_", 15)
      grad_h_lod == PushNamed(loop_count, "system_temp_grad_h_lod_", 15)
  IN PushNamed(grad_h_lod, "system_temp_grad_v_", 7)

\* The guest registers that are not interpolators are zeroed.
ZeroRegisters(tr) ==
  LET first == IF tr.is_pixel_shader THEN kMaxInterpolators ELSE 0
  IN Emit(tr, [k \in 1..(IF tr.register_count > first THEN tr.register_count - first ELSE 0) |->
                 OpMov(IF tr.uses_register_dynamic_addressing
                         THEN DestX(0, StaticIndex(first + k - 1))
                         ELSE DestRegister(first + k - 1),
                       SrcLF(0, 0, 0, 0), FALSE)])

StartVertexShader_LoadVertexIndex(tr) ==
  IF tr.register_count < 1 THEN tr
  ELSE StretchWithTemp(tr, "StartVertexShader_LoadVertexIndex")

\* Variant of StartUnsupportedVertexOrDomainShader: the type is passed over.
StartUnsupportedVertexOrDomainShaderSilently(tr) == tr

\* The default case of StartVertexOrDomainShader.
StartUnsupportedVertexOrDomainShader(tr) ==
  IF tr.checked_build
    THEN [tr EXCEPT !.asserted = TRUE]
    ELSE EmitTranslationError(tr, "Unsupported host vertex shader type in StartVertexOrDomainShader")

StartVertexOrDomainShader(tr) ==
  LET zeroed == Emit(tr, <<Stretch("zero interpolators")>>)
      type == tr.host_vertex_shader_type
      domain == AssertTrue(zeroed, tr.register_count >= 2)
  IN CASE type = "kVertex" -> StartVertexShader_LoadVertexIndex(zeroed)
       [] type \in {"kTriangleDomainCPIndexed", "kQuadDomainCPIndexed"} ->
            IF domain.asserted \/ tr.register_count < 1 THEN domain
            ELSE Emit(domain, <<Stretch(type)>>)
       [] type = "kTriangleDomainPatchIndexed" ->
            IF domain.asserted \/ tr.register_count < 2 THEN domain
            ELSE StretchWithTemp(domain, type)
       [] type = "kQuadDomainPatchIndexed" ->
            IF domain.asserted \/ tr.register_count < 1 THEN domain
            ELSE StretchWithTemp(domain, type)
       [] OTHER -> StartUnsupportedVertexOrDomainShader(zeroed)

\* StartPixelShader: the part for the rasterizer-ordered view uses the
\* registers pushed for it; the interpolators and the generated parameter
\* take registers of their own and give them back.
StartPixelShader(tr) ==
  LET rov == IF tr.edram_rov_used_
               THEN LET loaded == Emit(tr, <<Stretch("StartPixelShader_LoadROVParameters")>>)
                    IN IF tr.rov_depth_stencil_early
                         THEN Emit(loaded, <<Stretch("ROV_DepthStencilTest")>>)
                         ELSE IF ~tr.writes_depth
                                THEN Emit(AssertTrue(loaded, tr.system_temp_depth_stencil_ # UINT32_MAX),
                                          <<Stretch("depth derivatives")>>)
                                ELSE loaded
               ELSE tr
      interpolator_count == IF kMaxInterpolators < tr.register_count
                              THEN kMaxInterpolators ELSE tr.register_count
      centroid == StretchWithTemp(rov, "centroid interpolators")
      param_gen == Emit(PushSystemTemp(centroid, 0, 1), <<Stretch("param_gen")>>)
      copied == IF tr.uses_register_dynamic_addressing \/ interpolator_count # 1
                  THEN PopSystemTemp(Emit(PushSystemTemp(param_gen, 0, 1), <<Stretch("param_gen copy")>>), 1)
                  ELSE Emit(param_gen, <<Stretch("param_gen copy")>>)
  IN IF rov.asserted \/ tr.is_depth_only_pixel_shader_ \/ interpolator_count = 0
       THEN rov
       ELSE PopSystemTemp(copied, 1)

\* The frame of the translated code: the main loop and the first label.
OpenMainLoop(tr) ==
  Emit(tr, <<OpLoop>> \o
           (IF tr.use_switch_for_control_flow
              THEN <<OpSwitch(SrcRSwizzled(tr.system_temp_ps_pc_p0_a0_, kYYYY)), OpCase(SrcLU(0))>>
              ELSE <<OpIf(FALSE, SrcRSwizzled(tr.system_temp_ps_pc_p0_a0_, kYYYY))>>))

\* The registers of the epilogue, for a vertex and for a pixel shader.
PushEpilogueTemps(tr) ==
  IF ~tr.is_pixel_shader
    THEN Emit(PushNamed(PushNamed(tr, "system_temp_position_", 15),
                        "system_temp_point_size_edge_flag_kill_vertex_", 4),
              <<OpMov(DestR(tr.system_temp_count_current_ + 1 + SystemTempBase(tr), 1),
                      SrcLF(0 - 1, 0 - 1, 0 - 1, 0 - 1), FALSE)>>)
    ELSE LET rov == IF tr.edram_rov_used_ THEN PushNamed(tr, "system_temp_rov_params_", 0) ELSE tr
             zero_mask == IF tr.writes_depth THEN 1
                          ELSE IF tr.rov_depth_stencil_early THEN 15 ELSE 0
             asserted == IF tr.writes_depth THEN rov ELSE AssertTrue(rov, tr.edram_rov_used_)
             depth == IF tr.depth_stencil_system_temp_used
                        THEN IF asserted.asserted THEN asserted
                             ELSE PushNamed(asserted, "system_temp_depth_stencil_", zero_mask)
                        ELSE rov
         IN IF depth.asserted THEN depth ELSE PushColorTargets(depth, 0)

StartTranslation(tr) ==
  LET epilogue == PushEpilogueTemps(tr)
      cleared == [epilogue EXCEPT
                    !.system_temps_memexport_address_ = [i \in 0..(kMaxMemExports - 1) |-> UINT32_MAX],
                    !.system_temps_memexport_data_ =
                       [i \in 0..(kMaxMemExports - 1) |-> [j \in MemExportData |-> UINT32_MAX]],
                    !.system_temp_memexport_written_ = UINT32_MAX]
      body == IF tr.is_depth_only_pixel_shader_ THEN epilogue
              ELSE ZeroRegisters(PushTranslatedCodeTemps(PushMemExports(cleared, 0)))
      started == IF ~tr.is_pixel_shader THEN StartVertexOrDomainShader(body) ELSE StartPixelShader(body)
  IN IF epilogue.asserted THEN epilogue
     ELSE IF started.asserted \/ tr.is_depth_only_pixel_shader_ THEN started
     ELSE OpenMainLoop(started)

\* The number of PopSystemTemp() calls that give back the memexport
\* registers.
MemExportPops(tr) ==
  LET rows == {i \in 0..(kMaxMemExports - 1) : tr.system_temps_memexport_address_[i] # UINT32_MAX}
      data == {pair \in rows \X MemExportData :
                 tr.system_temps_memexport_data_[pair[1]][pair[2]] # UINT32_MAX}
  IN Cardinality(rows) + Cardinality(data)
       + (IF tr.system_temp_memexport_written_ # UINT32_MAX THEN 1 ELSE 0)

\* Variant of EpiloguePops: the register of the depth and the stencil is
\* kept.
EpiloguePopsKeepingDepth(tr) ==
  Cardinality(ColorTargetsWritten(tr)) + (IF tr.edram_rov_used_ THEN 1 ELSE 0)

\* The number of registers a pixel shader gives back after the `ret`.
EpiloguePops(tr) ==
  Cardinality(ColorTargetsWritten(tr))
    + (IF tr.depth_stencil_system_temp_used THEN 1 ELSE 0)
    + (IF tr.edram_rov_used_ THEN 1 ELSE 0)

CompleteVertexOrDomainShader(tr) ==
  PopSystemTemp(Emit(PushSystemTemp(tr, 0, 1), <<Stretch("CompleteVertexOrDomainShader")>>), 1)

\* CompletePixelShader leaves the registers as it found them.
CompletePixelShader(tr) == Emit(tr, <<Stretch("CompletePixelShader")>>)

\* ExportToMemory leaves the registers as it found them.
ExportToMemory(tr) == Emit(tr, <<Stretch("ExportToMemory")>>)

CompleteShaderCode(tr) ==
  LET closed == Emit(CloseExecConditionals(tr),
                     (IF tr.use_switch_for_control_flow THEN <<OpBreak, OpEndSwitch>> ELSE <<OpEndIf>>)
                       \o <<OpBreak, OpEndLoop>>)
      exported == ExportToMemory(PopSystemTemp(closed, 6))
      body == IF tr.is_depth_only_pixel_shader_ THEN tr
              ELSE PopTimes(exported, MemExportPops(exported))
      completed == IF ~tr.is_pixel_shader THEN CompleteVertexOrDomainShader(body)
                   ELSE CompletePixelShader(body)
      returned == Emit(completed, <<OpRet>>)
  IN IF ~tr.is_pixel_shader THEN PopSystemTemp(returned, 2)
     ELSE PopTimes(returned, EpiloguePops(returned))

(***************************************************************************)
(* The translation of one shader: StartTranslation, the handlers of the    *)
(* control flow instructions in the order of the program, and              *)
(* CompleteShaderCode.                                                     *)
(***************************************************************************)
\* The control flow instructions of a program, and of a program that is
\* translated from the prologue to the epilogue.
MaxInstructions == 3
MaxSessionInstructions == 1

Label(cf_index) == [kind |-> "label", cf_index |-> cf_index]
Exec(type, bool_constant_index, condition, is_end, writes_predicate) ==
  [kind |-> "exec", type |-> type, bool_constant_index |-> bool_constant_index,
   condition |-> condition, is_end |-> is_end, writes_predicate |-> writes_predicate,
   stage |-> "begin"]
LoopStart(loop_constant_index, is_repeat, loop_skip_address) ==
  [kind |-> "loop_start", loop_constant_index |-> loop_constant_index,
   is_repeat |-> is_repeat, loop_skip_address |-> loop_skip_address]
LoopEnd(loop_constant_index, is_predicated_break, predicate_condition, loop_body_address) ==
  [kind |-> "loop_end", loop_constant_index |-> loop_constant_index,
   is_predicated_break |-> is_predicated_break, predicate_condition |-> predicate_condition,
   loop_body_address |-> loop_body_address]
Jump(type, bool_constant_index, condition, target_address) ==
  [kind |-> "jump", type |-> type, bool_constant_index |-> bool_constant_index,
   condition |-> condition, target_address |-> target_address]
Alloc(type) == [kind |-> "alloc", type |-> type]

\* The guards of the execs and of the jumps: none, a bool constant and its
\* expected value, the predicate and its expected value.
ExecGuards ==
  { <<"kUnconditional", 0, FALSE>>, <<"kConditional", 0, TRUE>>, <<"kConditional", 0, FALSE>>,
    <<"kConditional", 33, TRUE>>, <<"kPredicated", 0, TRUE>>, <<"kPredicated", 0, FALSE>> }

ControlFlowInstructions ==
  { Exec(guard[1], guard[2], guard[3], FALSE, FALSE) : guard \in ExecGuards }
    \cup { Exec("kUnconditional", 0, FALSE, FALSE, TRUE), Exec("kPredicated", 0, TRUE, FALSE, TRUE),
           Exec("kUnconditional", 0, FALSE, TRUE, FALSE) }
    \cup { Jump("kUnconditional", 0, FALSE, 1), Jump("kConditional", 0, TRUE, 1),
           Jump("kPredicated", 0, TRUE, 1) }
    \cup { LoopStart(0, FALSE, 2), LoopStart(5, TRUE, 2) }
    \cup { LoopEnd(0, FALSE, FALSE, 1), LoopEnd(5, TRUE, TRUE, 1) }
    \cup { Alloc("kMemory"), Alloc("kPosition") }
    \cup { Label(1) }

\* The programs of at most the given number of instructions; the label of
\* the first instruction may stand before them.
Programs(length) ==
  LET bodies == UNION {[1..n -> ControlFlowInstructions] : n \in 0..length}
  IN bodies \cup {<<Label(0)>> \o program : program \in {b \in bodies : Len(b) < length}}

\* The call ends: its code joins the code of the shader.
EndCall(after, op, instr) ==
  [after EXCEPT !.shader_code_ = @ \o after.code,
                !.trace = Append(@, [op |-> op, instr |-> instr, code |-> after.code]),
                !.call = [op |-> op, instr |-> instr]]

StartTranslationCall ==
  /\ ~translator.asserted
  /\ translator.phase = "reset"
  /\ translator' =
       [EndCall(StartTranslation([translator EXCEPT !.code = <<>>]), "StartTranslation", <<>>)
          EXCEPT !.phase = "body"]
  /\ UNCHANGED <<pipelineCacheVars, enumerator>>

\* The next instruction of the program is of the kind and the translator is
\* in the body of the shader.
NextInstructionIs(kind) ==
  /\ ~translator.asserted
  /\ translator.phase = "body"
  /\ ~translator.is_depth_only_pixel_shader_
  /\ translator.program # <<>>
  /\ Head(translator.program).kind = kind

\* The handler is called for the next instruction, which is done with.
Processed(after, op) ==
  [EndCall(after, op, Head(translator.program)) EXCEPT !.program = Tail(@)]

ProcessLabelCall ==
  /\ NextInstructionIs("label")
  /\ translator' =
       Processed(ProcessLabel([translator EXCEPT !.code = <<>>], Head(translator.program).cf_index),
                 "ProcessLabel")
  /\ UNCHANGED <<pipelineCacheVars, enumerator>>

ProcessExecInstructionBeginCall ==
  /\ NextInstructionIs("exec")
  /\ Head(translator.program).stage = "begin"
  /\ LET instr == Head(translator.program)
     IN translator' =
          [EndCall(ProcessExecInstructionBegin([translator EXCEPT !.code = <<>>], instr),
                   "ProcessExecInstructionBegin", instr)
             EXCEPT !.program[1].stage = IF instr.writes_predicate THEN "body" ELSE "end"]
  /\ UNCHANGED <<pipelineCacheVars, enumerator>>

ProcessAluInstructionCall ==
  /\ NextInstructionIs("exec")
  /\ Head(translator.program).stage = "body"
  /\ translator' =
       [EndCall(ProcessAluInstructionWritingPredicate([translator EXCEPT !.code = <<>>]),
                "ProcessAluInstruction", Head(translator.program))
          EXCEPT !.program[1].stage = "end"]
  /\ UNCHANGED <<pipelineCacheVars, enumerator>>

ProcessExecInstructionEndCall ==
  /\ NextInstructionIs("exec")
  /\ Head(translator.program).stage = "end"
  /\ translator' =
       Processed(ProcessExecInstructionEnd([translator EXCEPT !.code = <<>>], Head(translator.program)),
                 "ProcessExecInstructionEnd")
  /\ UNCHANGED <<pipelineCacheVars, enumerator>>

ProcessLoopStartInstructionCall ==
  /\ NextInstructionIs("loop_start")
  /\ translator' =
       Processed(ProcessLoopStartInstruction([translator EXCEPT !.code = <<>>], Head(translator.program)),
                 "ProcessLoopStartInstruction")
  /\ UNCHANGED <<pipelineCacheVars, enumerator>>

ProcessLoopEndInstructionCall ==
  /\ NextInstructionIs("loop_end")
  /\ translator' =
       Processed(ProcessLoopEndInstruction([translator EXCEPT !.code = <<>>], Head(translator.program)),
                 "ProcessLoopEndInstruction")
  /\ UNCHANGED <<pipelineCacheVars, enumerator>>

ProcessJumpInstructionCall ==
  /\ NextInstructionIs("jump")
  /\ translator' =
       Processed(ProcessJumpInstruction([translator EXCEPT !.code = <<>>], Head(translator.program)),
                 "ProcessJumpInstruction")
  /\ UNCHANGED <<pipelineCacheVars, enumerator>>

ProcessAllocInstructionCall ==
  /\ NextInstructionIs("alloc")
  /\ translator' =
       Processed(ProcessAllocInstruction([translator EXCEPT !.code = <<>>], Head(translator.program)),
                 "ProcessAllocInstruction")
  /\ UNCHANGED <<pipelineCacheVars, enumerator>>

CompleteShaderCodeCall ==
  /\ ~translator.asserted
  /\ translator.phase = "body"
  /\ translator.program = <<>>
  /\ translator' =
       [EndCall(CompleteShaderCode([translator EXCEPT !.code = <<>>]), "CompleteShaderCode", <<>>)
          EXCEPT !.phase = "completed"]
  /\ UNCHANGED <<pipelineCacheVars, enumerator>>

\* The memexports of a shader: none, or the first and the last allocation
\* with some and with all of their eM#.
MemExportsWritten ==
  { [i \in 0..(kMaxMemExports - 1) |-> 0],
    [i \in 0..(kMaxMemExports - 1) |->
       IF i = 0 THEN 5 ELSE IF i = kMaxMemExports - 1 THEN 31 ELSE 0] }

\* The vertex and the domain shaders, of every host vertex shader type.
VertexShaders ==
  { [EmptyShader EXCEPT !.host_vertex_shader_type = type,
                        !.register_count = registers,
                        !.uses_register_dynamic_addressing = dynamic] :
      type \in HostVertexShaderTypes \cup {kLineDomainCPIndexed},
      registers \in {0, MaxRegisters}, dynamic \in BOOLEAN }

\* The pixel shaders: with the rasterizer-ordered view the register of the
\* depth and the stencil is always used, without it when the shader writes
\* the depth.
PixelShaders ==
  { [EmptyShader EXCEPT !.is_pixel_shader = TRUE,
                        !.is_depth_only_pixel_shader_ = depth[1],
                        !.edram_rov_used_ = depth[2],
                        !.depth_stencil_system_temp_used = depth[3],
                        !.writes_depth = depth[4],
                        !.rov_depth_stencil_early = depth[5],
                        !.writes_color_targets = colors,
                        !.register_count = registers,
                        !.uses_register_dynamic_addressing = dynamic] :
      depth \in { <<FALSE, FALSE, FALSE, FALSE, FALSE>>, <<FALSE, FALSE, TRUE, TRUE, FALSE>>,
                  <<FALSE, TRUE, TRUE, FALSE, FALSE>>, <<FALSE, TRUE, TRUE, FALSE, TRUE>>,
                  <<FALSE, TRUE, TRUE, TRUE, FALSE>>, <<TRUE, TRUE, TRUE, FALSE, TRUE>>,
                  <<TRUE, TRUE, TRUE, FALSE, FALSE>> },
      colors \in {0, 10, 15}, registers \in {0, MaxRegisters}, dynamic \in BOOLEAN }

\* The shaders that are translated, with their programs; there is no guest
\* shader, and no program, behind a depth-only pixel shader.
SessionShaders ==
  { [shader EXCEPT !.checked_build = checked,
                   !.use_switch_for_control_flow = use_switch,
                   !.memexport_eM_written = IF shader.is_depth_only_pixel_shader_
                                              THEN EmptyShader.memexport_eM_written ELSE memexports,
                   !.program = IF shader.is_depth_only_pixel_shader_ THEN <<>> ELSE program] :
      shader \in VertexShaders \cup PixelShaders, checked \in BOOLEAN, use_switch \in BOOLEAN,
      memexports \in MemExportsWritten, program \in Programs(MaxSessionInstructions) }

InitTranslation ==
  /\ PipelineCacheStartWith([shaders |-> EmptyFile, pipelines |-> EmptyFile])
  /\ creation_thread_count = 0
  /\ translator \in {TranslatorFor(shader) : shader \in SessionShaders}

NextTranslation ==
  \/ StartTranslationCall
  \/ ProcessLabelCall
  \/ ProcessExecInstructionBeginCall
  \/ ProcessAluInstructionCall
  \/ ProcessExecInstructionEndCall
  \/ ProcessLoopStartInstructionCall
  \/ ProcessLoopEndInstructionCall
  \/ ProcessJumpInstructionCall
  \/ ProcessAllocInstructionCall
  \/ CompleteShaderCodeCall

SpecTranslation == InitTranslation /\ [][NextTranslation]_vars

(***************************************************************************)
(* C21: the system temporary registers of a whole translation.             *)
(***************************************************************************)
\* The translation has reached the end of CompleteShaderCode.
TranslationCompleted ==
  translator.phase = "completed" /\ translator.call.op = "CompleteShaderCode"

\* C21: for every translated shader (vertex, domain, pixel or depth-only
\* pixel, with any use of the rasterizer-ordered view, of the depth and
\* stencil register, of the color targets and of the memexports) no
\* PopSystemTemp asks for more registers than are held, and after
\* CompleteShaderCode every register pushed has been popped:
\* system_temp_count_current_ is 0.
C21_SystemTempsBalanced ==
  /\ ~translator.popped_beyond
  /\ TranslationCompleted =>
       translator.system_temp_count_current_ = 0 /\ translator.blocks = <<>>

\* A pixel shader with the rasterizer-ordered view, four color targets and
\* two memexports has been translated: 22 registers were held at once.
C21_PixelShaderTranslated ==
  /\ TranslationCompleted
  /\ translator.is_pixel_shader /\ translator.edram_rov_used_
  /\ translator.writes_color_targets = 15
  /\ translator.memexport_eM_written[kMaxMemExports - 1] = 31
  /\ translator.system_temp_count_max_ >= 22
  /\ translator.system_temp_count_current_ = 0

(***************************************************************************)
(* The control flow of a vertex shader: every program of up to             *)
(* MaxInstructions control flow instructions, with the `switch` and with   *)
(* the `if` form of the main loop.                                         *)
(***************************************************************************)
ControlFlowShaders ==
  { [EmptyShader EXCEPT !.register_count = MaxRegisters,
                        !.use_switch_for_control_flow = use_switch,
                        !.program = program] :
      use_switch \in BOOLEAN, program \in Programs(MaxInstructions) }

InitControlFlow ==
  /\ PipelineCacheStartWith([shaders |-> EmptyFile, pipelines |-> EmptyFile])
  /\ creation_thread_count = 0
  /\ translator \in {TranslatorFor(shader) : shader \in ControlFlowShaders}

SpecControlFlow == InitControlFlow /\ [][NextTranslation]_vars

(***************************************************************************)
(* C22: adjacent conditional execs with one guard.                         *)
(***************************************************************************)
\* The guard of an exec or of a jump.
GuardOf(instr) == <<instr.type, instr.bool_constant_index, instr.condition>>

\* The number of the instructions of the code with the operation.
CountOp(code, op) == Cardinality({i \in 1..Len(code) : code[i].op = op})

\* Call i of the trace begins a conditional exec that follows, with nothing
\* between them, a conditional exec of the same bool constant and the same
\* expected value.
SameConditionalExecAgain(i) ==
  LET trace == translator.trace
  IN /\ i \in 2..Len(trace)
     /\ trace[i].op = "ProcessExecInstructionBegin"
     /\ trace[i - 1].op = "ProcessExecInstructionEnd"
     /\ trace[i].instr.type = "kConditional"
     /\ GuardOf(trace[i].instr) = GuardOf(trace[i - 1].instr)

\* The `if`s of the shader code that test a bool constant.
ConditionalExecsOpened ==
  LET code == translator.shader_code_
  IN {i \in 2..Len(code) : code[i].op = "if" /\ code[i - 1].op = "and"}

\* C22: when a conditional exec follows, with no label, loop or other exec
\* between them, a conditional exec of the same bool constant index and the
\* same expected condition, the first exec's block is not closed and no
\* second block is opened: both are in one `if` ... `endif` pair. A
\* translated program of two such execs has one `if` on a bool constant, and
\* every `if` of a translated shader has its `endif`.
C22_SameConditionalExecsMerged ==
  /\ \A i \in 1..Len(translator.trace) :
       SameConditionalExecAgain(i) =>
         /\ translator.trace[i].code = <<>>
         /\ CountOp(translator.trace[i - 1].code, "endif") = 0
  /\ TranslationCompleted =>
       CountOp(translator.shader_code_, "if") = CountOp(translator.shader_code_, "endif")
  /\ (TranslationCompleted /\ Len(translator.trace) = 6 /\ SameConditionalExecAgain(4)) =>
       Cardinality(ConditionalExecsOpened) = 1

\* Two conditional execs of bool constant 33 expected true were translated
\* and the shader was completed.
C22_TwoExecsInOneBlock ==
  /\ TranslationCompleted
  /\ Len(translator.trace) = 6
  /\ SameConditionalExecAgain(4)
  /\ translator.trace[4].instr.bool_constant_index = 33
  /\ Cardinality(ConditionalExecsOpened) = 1

(***************************************************************************)
(* C23: the block an exec's code is emitted in, read from the emitted      *)
(* code.                                                                   *)
(***************************************************************************)
\* The code emitted by the first calls of the trace.
RECURSIVE CodeOfCalls(_, _)
CodeOfCalls(trace, upto) ==
  IF upto = 0 THEN <<>> ELSE CodeOfCalls(trace, upto - 1) \o trace[upto].code

\* What the `if` at a place of the code tests: a bool constant (found in the
\* `and` before it) with its expected value, the predicate with its expected
\* value, or something else.
GuardOfIf(tr, code, at) ==
  LET this_if == code[at]
      tests_and == /\ at > 1
                   /\ code[at - 1].op = "and"
                   /\ code[at - 1].dest.index = this_if.src.where
                   /\ code[at - 1].src.type = "cb"
      test == code[at - 1]
      bit == CHOOSE k \in 0..30 : 2^k = test.src1.value
  IN IF tests_and
       THEN <<"kConditional",
              test.src.where.index * 128 + SwizzleLane(test.src.swizzle, 0) * 32 + bit,
              this_if.test_nonzero>>
       ELSE IF this_if.src = SrcRSwizzled(tr.system_temp_ps_pc_p0_a0_, kZZZZ)
              THEN <<"kPredicated", 0, this_if.test_nonzero>>
              ELSE <<"other", 0, FALSE>>

\* The `if`s of the code that are open after it, the innermost last: the
\* place and what is tested.
RECURSIVE OpenIfs(_, _, _)
OpenIfs(tr, code, upto) ==
  IF upto = 0 THEN <<>>
  ELSE LET before == OpenIfs(tr, code, upto - 1)
       IN CASE code[upto].op = "if" ->
                 Append(before, [at |-> upto, guard |-> GuardOfIf(tr, code, upto)])
            [] code[upto].op = "endif" /\ before # <<>> ->
                 SubSeq(before, 1, Len(before) - 1)
            [] OTHER -> before

\* The block of an exec that is open after the code: its `if`, or none.
NoBlock == [at |-> 0, guard |-> <<"kUnconditional", 0, FALSE>>]
OpenExecBlock(tr, code) ==
  LET open == OpenIfs(tr, code, Len(code))
  IN IF open # <<>> /\ open[Len(open)].guard[1] # "other" THEN open[Len(open)] ELSE NoBlock

\* The predicate register is written by the code after the place.
PredicateWrittenAfter(tr, code, at) ==
  \E i \in (at + 1)..Len(code) :
    /\ code[i].op = "mov"
    /\ code[i].dest.type = "r"
    /\ code[i].dest.index = tr.system_temp_ps_pc_p0_a0_
    /\ Bit(code[i].dest.mask, 2) = 1

\* The guard of an exec as a block would test it.
ExecGuard(instr) ==
  CASE instr.type = "kConditional" -> <<"kConditional", instr.bool_constant_index, instr.condition>>
    [] instr.type = "kPredicated" -> <<"kPredicated", 0, instr.condition>>
    [] OTHER -> <<"kUnconditional", 0, FALSE>>

\* C23: after every ProcessExecInstructionBegin of every sequence of execs,
\* jumps and other control flow instructions, the block that is open in the
\* emitted code tests exactly the guard of the exec (its kind, its bool
\* constant index, its expected condition), and no block is open for an
\* unconditional exec; so a conditional exec is never inside a predicated
\* block or a block of another bool constant, and when the exec is
\* predicated the predicate has not been written since the block's `if`.
C23_ExecInBlockOfOwnGuard ==
  \A i \in 1..Len(translator.trace) :
    translator.trace[i].op = "ProcessExecInstructionBegin" =>
      LET code == CodeOfCalls(translator.trace, i)
          block == OpenExecBlock(translator, code)
          instr == translator.trace[i].instr
      IN /\ block.guard = ExecGuard(instr)
         /\ instr.type = "kPredicated" => ~PredicateWrittenAfter(translator, code, block.at)

\* A predicated exec follows a predicated exec of the same expected value
\* that wrote the predicate: it got a block of its own.
C23_PredicateWrittenBlockReopened ==
  \E i \in 2..Len(translator.trace) :
    /\ translator.trace[i].op = "ProcessExecInstructionBegin"
    /\ translator.trace[i - 1].op = "ProcessExecInstructionEnd"
    /\ translator.trace[i].instr.type = "kPredicated"
    /\ translator.trace[i - 1].instr.writes_predicate
    /\ GuardOf(translator.trace[i].instr) = GuardOf(translator.trace[i - 1].instr)
    /\ CountOp(translator.trace[i].code, "if") = 1
    /\ CountOp(translator.trace[i].code, "endif") = 1

(***************************************************************************)
(* C24: what closes the block of an exec.                                  *)
(***************************************************************************)
\* Call i of the trace is the handler of a label after the first
\* instruction, of a loop start or of a loop end.
ClosingCall(i) ==
  \/ translator.trace[i].op \in {"ProcessLoopStartInstruction", "ProcessLoopEndInstruction"}
  \/ translator.trace[i].op = "ProcessLabel" /\ translator.trace[i].instr.cf_index # 0

\* The block of an exec that is open after call i of the trace.
OpenExecBlockAfter(i) == OpenExecBlock(translator, CodeOfCalls(translator.trace, i))

\* The merge state says that no block of an exec is open.
MergeStateReset ==
  /\ translator.cf_exec_bool_constant_ = kCfExecBoolConstantNone
  /\ ~translator.cf_exec_predicated_
  /\ ~translator.cf_exec_predicate_written_

\* C24 as stated: after a label, a loop start, a loop end or a jump is
\* processed no block of an exec is open in the emitted code, and the merge
\* state is reset.
C24_LabelLoopJumpCloseBlock ==
  /\ \A i \in 1..Len(translator.trace) :
       translator.trace[i].op \in {"ProcessLabel", "ProcessLoopStartInstruction",
                                   "ProcessLoopEndInstruction", "ProcessJumpInstruction"}
         => OpenExecBlockAfter(i) = NoBlock
  /\ translator.call.op \in {"ProcessLabel", "ProcessLoopStartInstruction",
                             "ProcessLoopEndInstruction", "ProcessJumpInstruction"}
       => MergeStateReset

\* C24 as the code has it: after a label past the first instruction, a loop
\* start or a loop end is processed no block of an exec is open in the
\* emitted code and the merge state is reset, also when no instruction
\* followed the exec that opened the block. A jump is treated like an exec:
\* after it the open block is the one of the jump's own guard (none for an
\* unconditional jump), which was left open when the guard is the one of the
\* exec before.
C24_LabelLoopCloseBlockJumpMerges ==
  /\ \A i \in 1..Len(translator.trace) :
       /\ ClosingCall(i) => OpenExecBlockAfter(i) = NoBlock
       /\ translator.trace[i].op = "ProcessJumpInstruction" =>
            OpenExecBlockAfter(i).guard = ExecGuard(translator.trace[i].instr)
  /\ (translator.trace # <<>> /\ ClosingCall(Len(translator.trace))) => MergeStateReset

\* A conditional exec without instructions, a jump of the same guard and a
\* label were translated: the jump was emitted into the block of the exec and
\* left it open, the label closed it.
C24_JumpMergedLabelClosed ==
  /\ Len(translator.trace) >= 5
  /\ translator.trace[2].op = "ProcessExecInstructionBegin"
  /\ translator.trace[2].instr.type = "kConditional"
  /\ translator.trace[4].op = "ProcessJumpInstruction"
  /\ CountOp(translator.trace[4].code, "if") = 0
  /\ CountOp(translator.trace[4].code, "endif") = 0
  /\ OpenExecBlockAfter(4).guard = ExecGuard(translator.trace[2].instr)
  /\ translator.trace[5].op = "ProcessLabel"
  /\ translator.trace[5].code[1] = OpEndIf
  /\ OpenExecBlockAfter(5) = NoBlock

(***************************************************************************)
(* The emitted loop code at run time. The code a loop handler emits is     *)
(* run on a register file; the guest loops that were entered and not left  *)
(* are kept beside it.                                                     *)
(***************************************************************************)
\* The depth of the two stacks (four lanes of a register), the loop starts of
\* a run, the count up to which loops are nested, and the iterations a loop
\* is followed beyond its count.
MaxLoopDepth == 4
MaxLoopStarts == 4
MaxNestedCount == 2
MaxExtraIterations == 1

\* The loop constants of the run: the count, the first aL and the step of aL.
LoopConstants ==
  [k \in 0..7 |->
     CASE k = 0 -> [count |-> 2, start |-> 0, step |-> 1]
       [] k = 1 -> [count |-> 0, start |-> 9, step |-> 1]
       [] k = 2 -> [count |-> 3, start |-> 0, step |-> 1]
       [] k = 5 -> [count |-> 1, start |-> 7, step |-> 0 - 2]
       [] k = 6 -> [count |-> 255, start |-> 10, step |-> 2]
       [] OTHER -> [count |-> 1, start |-> 0, step |-> 0]]

\* The 32 bits of a loop constant: the count in bits 0 to 7, the first aL in
\* bits 8 to 15, the step as a signed byte in bits 16 to 23.
PackedLoopConstant(constant) ==
  constant.count + 256 * constant.start + 65536 * ((constant.step + 256) % 256)

\* The bits of two numbers that are not negative, one `and`ed with the other.
RECURSIVE BitAnd(_, _)
BitAnd(a, b) ==
  IF a = 0 \/ b = 0 THEN 0
  ELSE (a % 2) * (b % 2) + 2 * BitAnd(a \div 2, b \div 2)

\* A field of the bits of a value, as it is and with its sign.
BitFieldExtract(width, offset, value) == (value \div (2^offset)) % (2^width)
SignedBitFieldExtract(width, offset, value) ==
  LET field == BitFieldExtract(width, offset, value)
  IN IF field >= 2^(width - 1) THEN field - 2^width ELSE field

\* The value a lane of an instruction reads from a source.
SrcValue(rf, src, lane) ==
  CASE src.type \in {"lu", "li"} -> src.value
    [] src.type = "r" -> rf[src.where][SwizzleLane(src.swizzle, lane) + 1]
    [] src.type = "cb" ->
         PackedLoopConstant(LoopConstants[(src.where.index - 2) * 4 + SwizzleLane(src.swizzle, lane)])
    [] OTHER -> 0

\* The value an instruction computes for a lane.
LaneResult(rf, instruction, lane) ==
  LET a == SrcValue(rf, instruction.src, lane)
  IN CASE instruction.op = "mov" -> a
       [] instruction.op = "and" -> BitAnd(a, SrcValue(rf, instruction.src1, lane))
       [] instruction.op = "iadd" -> a + SrcValue(rf, instruction.src1, lane)
       [] instruction.op = "ubfe" ->
            BitFieldExtract(instruction.width.value, instruction.offset.value, a)
       [] instruction.op = "ibfe" ->
            SignedBitFieldExtract(instruction.width.value, instruction.offset.value, a)
       [] instruction.op = "movc" ->
            IF SrcValue(rf, instruction.test, lane) # 0 THEN a
            ELSE SrcValue(rf, instruction.src1, lane)
       [] OTHER -> 0

\* The registers after an instruction that writes the lanes of its mask.
RegistersAfter(rf, instruction) ==
  [rf EXCEPT ![instruction.dest.index] =
     [lane \in 1..4 |->
        IF Bit(instruction.dest.mask, lane - 1) = 1
          THEN LaneResult(rf, instruction, lane - 1)
          ELSE @[lane]]]

\* The code is run from a place on: open holds, for every `if` not yet
\* ended, whether its test held and whether the code around it is run. The
\* run ends at a `continue` or at the end of the code.
RECURSIVE Execute(_, _, _, _)
Execute(code, at, rf, open) ==
  LET running == open = <<>> \/ open[Len(open)].active
      instruction == code[at]
      top == open[Len(open)]
  IN IF at > Len(code) THEN [rf |-> rf, continued |-> FALSE]
     ELSE CASE instruction.op = "if" ->
                 LET held == running /\ ((SrcValue(rf, instruction.src, 0) # 0) = instruction.test_nonzero)
                 IN Execute(code, at + 1, rf, Append(open, [active |-> held, around |-> running]))
            [] instruction.op = "else" ->
                 Execute(code, at + 1, rf,
                         [open EXCEPT ![Len(open)].active = top.around /\ ~top.active])
            [] instruction.op = "endif" ->
                 Execute(code, at + 1, rf, SubSeq(open, 1, Len(open) - 1))
            [] instruction.op = "continue" ->
                 IF running THEN [rf |-> rf, continued |-> TRUE]
                 ELSE Execute(code, at + 1, rf, open)
            [] instruction.op \in {"mov", "and", "iadd", "ubfe", "ibfe", "movc"} ->
                 Execute(code, at + 1, IF running THEN RegistersAfter(rf, instruction) ELSE rf, open)
            [] OTHER -> Execute(code, at + 1, rf, open)

\* The code a handler emits for an instruction, run on the registers.
RunLoopStartCode(tr, instr) ==
  Execute(ProcessLoopStartInstruction([tr EXCEPT !.code = <<>>], instr).code, 1, tr.run.rf, <<>>)
RunLoopEndCode(tr, instr) ==
  Execute(ProcessLoopEndInstruction([tr EXCEPT !.code = <<>>], instr).code, 1, tr.run.rf, <<>>)

\* The loop starts of the guest: their skip address is the instruction after
\* the loop end. The loops of a count above MaxNestedCount are not nested
\* and hold no loop.
LoopStarts ==
  { LoopStart(0, FALSE, 2), LoopStart(1, FALSE, 2), LoopStart(2, FALSE, 2), LoopStart(5, TRUE, 2),
    LoopStart(6, FALSE, 2) }
LoopCount(instr) == LoopConstants[instr.loop_constant_index].count

\* The stacks of the loop counters and of aL.
LoopStacks(tr) ==
  [loop_count |-> tr.run.rf[tr.system_temp_loop_count_], aL |-> tr.run.rf[tr.system_temp_aL_]]

\* The guest runs a loop start: the loop is entered, or skipped when the
\* emitted code jumps.
RunLoopStart(instr) ==
  /\ translator.phase = "running"
  /\ Len(translator.run.frames) < MaxLoopDepth
  /\ translator.run.started < MaxLoopStarts
  /\ LoopCount(instr) > MaxNestedCount => translator.run.frames = <<>>
  /\ translator.run.frames # <<>> => LoopCount(translator.run.frames[1].instr) <= MaxNestedCount
  /\ \E result \in {RunLoopStartCode(translator, instr)}, before \in {LoopStacks(translator)} :
        translator' =
          [translator EXCEPT
             !.call = [op |-> "RunLoopStart"],
             !.run.rf = result.rf,
             !.run.skipped = @ \/ result.continued,
             !.run.started = @ + 1,
             !.run.frames =
                IF result.continued THEN @
                ELSE Append(@, [instr |-> instr, before |-> before, iterations |-> 0,
                                break_taken |-> FALSE]),
             !.run.last =
                IF result.continued
                  THEN [event |-> "left", how |-> "skip", instr |-> instr, before |-> before,
                        bodies |-> 0, break_taken |-> FALSE]
                  ELSE [event |-> "entered"]]
  /\ UNCHANGED <<pipelineCacheVars, enumerator>>

\* An instruction of the body of the innermost loop sets the predicate.
RunSetPredicate(value) ==
  /\ translator.phase = "running"
  /\ translator.run.frames # <<>>
  /\ translator.run.rf[translator.system_temp_ps_pc_p0_a0_][3] # value
  /\ translator' =
       [translator EXCEPT !.call = [op |-> "RunSetPredicate"],
                          !.run.rf[translator.system_temp_ps_pc_p0_a0_][3] = value,
                          !.run.last = [event |-> "predicate"]]
  /\ UNCHANGED <<pipelineCacheVars, enumerator>>

\* The guest runs the loop end of the innermost loop: the body is run again,
\* or the loop is left.
RunLoopEnd(is_predicated_break, predicate_condition) ==
  /\ translator.phase = "running"
  /\ translator.run.frames # <<>>
  /\ \E loop \in {translator.run.frames[Len(translator.run.frames)]} :
     \E instr \in {LoopEnd(loop.instr.loop_constant_index, is_predicated_break, predicate_condition, 1)} :
     \E result \in {RunLoopEndCode(translator, instr)} :
     LET frames == translator.run.frames
         p0 == translator.run.rf[translator.system_temp_ps_pc_p0_a0_][3] # 0
         break_taken == is_predicated_break /\ p0 = predicate_condition
     IN /\ result.continued => loop.iterations + 1 < LoopCount(loop.instr) + MaxExtraIterations + 1
        /\ translator' =
             [translator EXCEPT
                !.call = [op |-> "RunLoopEnd"],
                !.run.rf = result.rf,
                !.run.frames =
                   IF result.continued
                     THEN [@ EXCEPT ![Len(frames)].iterations = @ + 1]
                     ELSE SubSeq(@, 1, Len(frames) - 1),
                !.run.last =
                   IF result.continued THEN [event |-> "continued"]
                   ELSE [event |-> "left", how |-> "end", instr |-> loop.instr,
                         before |-> loop.before, bodies |-> loop.iterations + 1,
                         break_taken |-> break_taken]]
  /\ UNCHANGED <<pipelineCacheVars, enumerator>>

\* The translator is in the body of a vertex shader; the registers of the
\* emitted code are zero, as the prologue leaves the loop registers.
InitLoops ==
  /\ PipelineCacheStartWith([shaders |-> EmptyFile, pipelines |-> EmptyFile])
  /\ creation_thread_count = 0
  /\ LET started == StartTranslation(TranslatorFor(EmptyShader))
     IN translator =
            [started EXCEPT !.phase = "running", !.code = <<>>, !.blocks = <<>>,
                            !.shader_code_ = <<>>, !.trace = <<>>,
                            !.run.rf = [register \in 0..started.system_temp_count_current_ |->
                                          <<0, 0, 0, 0>>]]

NextLoops ==
  \/ \E instr \in LoopStarts : RunLoopStart(instr)
  \/ \E value \in {0, 1} : RunSetPredicate(value)
  \/ \E is_predicated_break \in BOOLEAN, predicate_condition \in BOOLEAN :
       RunLoopEnd(is_predicated_break, predicate_condition)

SpecLoops == InitLoops /\ [][NextLoops]_vars


(***************************************************************************)
(* C25: the body of a loop runs as many times as its count.                *)
(***************************************************************************)
\* The innermost loop of the run, and the aL it starts from: the aL of the
\* loop around it when it is a repeat, the one of its constant otherwise.
InnermostLoop == translator.run.frames[Len(translator.run.frames)]
InitialAL(loop) ==
  IF loop.instr.is_repeat THEN loop.before.aL[1]
  ELSE LoopConstants[loop.instr.loop_constant_index].start

\* The body runs were counted right: a loop left without a break taken ran
\* its body as many times as its count (no time when it was skipped), a loop
\* in its body has not run it more often than its count, and aL is the first
\* aL and the step for every iteration before this one.
BodyRunsCountTimes ==
  /\ (translator.run.last.event = "left" /\ ~translator.run.last.break_taken) =>
       translator.run.last.bodies = LoopCount(translator.run.last.instr)
  /\ translator.run.frames # <<>> =>
       /\ InnermostLoop.iterations + 1 <= LoopCount(InnermostLoop.instr)
       /\ LoopStacks(translator).aL[1] =
            InitialAL(InnermostLoop)
              + InnermostLoop.iterations * LoopConstants[InnermostLoop.instr.loop_constant_index].step

\* C25: for a loop of count N with no predicated break taken, the emitted
\* code of the loop start and the loop end runs the body exactly N times
\* (zero times when N is 0), and in iteration k aL is the first aL + k * step.
C25_BodyRunsCountTimes == BodyRunsCountTimes

\* The same as long as no loop of the run was skipped for a count of zero.
BodyRunsCountTimesWithoutSkip == ~translator.run.skipped => BodyRunsCountTimes

(***************************************************************************)
(* C26: a loop that was left leaves the stacks as they were.               *)
(***************************************************************************)
\* The stacks of the loop counters and of aL are as before the loop start
\* when the loop has just been left.
LoopStacksRestored ==
  translator.run.last.event = "left" => LoopStacks(translator) = translator.run.last.before

\* C26: after a loop is left, by its count, by a predicated break or by the
\* skip of a count of zero, the stack of the loop counters and the stack of
\* aL hold what they held before the loop start, at every depth up to 4.
C26_LoopStacksRestored == LoopStacksRestored

\* The same as long as no loop of the run was skipped for a count of zero:
\* the loops left by their loop end, by count or by break.
LoopStacksRestoredWithoutSkip == ~translator.run.skipped => LoopStacksRestored

(***************************************************************************)
(* Alloc instructions and writes of the memexport targets, in any order.   *)
(***************************************************************************)
\* The allocations that are followed beyond the kMaxMemExports.
MaxExtraAllocs == 2

\* The memexports of the shaders: none, the eM0 and the eM2 of the first
\* allocation, and all eM# of the first and of the last allocation.
MemExportShaders ==
  { [EmptyShader EXCEPT !.checked_build = checked, !.memexport_eM_written = written] :
      checked \in BOOLEAN,
      written \in MemExportsWritten
                    \cup { [i \in 0..(kMaxMemExports - 1) |->
                              IF i \in {0, kMaxMemExports - 1} THEN 31 ELSE 0] } }

\* The writes of the memexport address and of the data eM0 to eM4.
MemExportWrites ==
  { [storage_target |-> target, storage_index |-> index, storage_addressing_mode |-> "kStatic",
     original_write_mask |-> mask, components |-> <<"x", "y", "z", "w">>, is_clamped |-> FALSE] :
      target \in {"kExportAddress", "kExportData"}, index \in MemExportData, mask \in {1, 15} }

\* An alloc instruction is processed.
AllocCall(type) ==
  /\ translator.phase = "body"
  /\ translator.memexport_alloc_current_count_ < kMaxMemExports + MaxExtraAllocs
  /\ translator' =
       [ProcessAllocInstruction([translator EXCEPT !.code = <<>>], Alloc(type))
          EXCEPT !.call = [op |-> "ProcessAllocInstruction", instr |-> Alloc(type)]]
  /\ UNCHANGED <<pipelineCacheVars, enumerator>>

\* The result of an instruction is stored to a memexport target.
MemExportWriteCall(result, can_store_memexport_address) ==
  /\ translator.phase = "body"
  /\ translator' =
       StoreResult([translator EXCEPT !.code = <<>>], result,
                   SrcSwizzle(SrcR(translator.register_count), kXYZW),
                   can_store_memexport_address)
  /\ UNCHANGED <<pipelineCacheVars, enumerator>>

\* The translation of a shader has started: the registers of the memexports
\* it writes are pushed, no allocation has been met.
InitMemExport ==
  /\ PipelineCacheStartWith([shaders |-> EmptyFile, pipelines |-> EmptyFile])
  /\ creation_thread_count = 0
  /\ \E shader \in MemExportShaders :
       translator = [StartTranslation(TranslatorFor(shader))
                       EXCEPT !.phase = "body", !.code = <<>>, !.blocks = <<>>]

NextMemExport ==
  \/ \E type \in {"kMemory", "kPosition"} : AllocCall(type)
  \/ \E result \in MemExportWrites, can_store_memexport_address \in BOOLEAN :
       MemExportWriteCall(result, can_store_memexport_address)

SpecMemExport == InitMemExport /\ [][NextMemExport]_vars

(***************************************************************************)
(* C27: the memexport writes that are not valid are dropped.               *)
(***************************************************************************)
\* A write to a memexport target has been made.
MemExportWritten ==
  /\ translator.call.op = "StoreResult"
  /\ translator.call.result.storage_target \in {"kExportAddress", "kExportData"}

\* The register of the current allocation the write selects, when the
\* allocation is one of the kMaxMemExports.
MemExportRegister ==
  IF translator.call.result.storage_target = "kExportAddress"
    THEN translator.system_temps_memexport_address_[translator.memexport_alloc_current_count_ - 1]
    ELSE translator.system_temps_memexport_data_[translator.memexport_alloc_current_count_ - 1]
                                                [translator.call.result.storage_index]

\* C27: after any sequence of alloc instructions and export writes, a write
\* to the memexport address or to memexport data emits nothing when the
\* count of allocations is 0, is above kMaxMemExports, or the register it
\* selects was not allocated; what it emits is for an allocation inside the
\* register tables; and it raises no error.
C27_InvalidMemExportWritesDropped ==
  MemExportWritten =>
    /\ translator.call.completed
    /\ ~translator.asserted
    /\ translator.translation_errors = <<>>
    /\ translator.memexport_alloc_current_count_ = 0 => translator.code = <<>>
    /\ translator.memexport_alloc_current_count_ > kMaxMemExports => translator.code = <<>>
    /\ (translator.memexport_alloc_current_count_ \in 1..kMaxMemExports
          /\ MemExportRegister = UINT32_MAX) => translator.code = <<>>
    /\ translator.code # <<>> =>
         /\ (translator.memexport_alloc_current_count_ - 1) \in 0..(kMaxMemExports - 1)
         /\ translator.code[Len(translator.code)].dest.where = MemExportRegister

\* Data was written after more allocations than kMaxMemExports in a shader
\* that has registers for the last of them, and nothing was emitted.
C27_WriteBeyondMaxDropped ==
  /\ MemExportWritten
  /\ translator.call.result.storage_target = "kExportData"
  /\ translator.memexport_alloc_current_count_ = kMaxMemExports + 1
  /\ translator.system_temps_memexport_data_[kMaxMemExports - 1][translator.call.result.storage_index]
       # UINT32_MAX
  /\ translator.code = <<>>


(***************************************************************************)
(* C28: a float constant outside the packed constant map.                  *)
(***************************************************************************)
\* LoadOperand was called, with some component needed, for a statically
\* addressed float constant that is not in the constant register map of the
\* shader.
UnmappedFloatConstantLoaded ==
  /\ translator.call.op = "LoadOperand"
  /\ translator.call.needed_components # 0
  /\ translator.call.operand.storage_source = "kConstantFloat"
  /\ translator.call.operand.storage_addressing_mode = "kStatic"
  /\ translator.call.operand.storage_index \notin translator.float_constants

\* The call failed soft: it returned the literal zero, pushed no temporary
\* register, emitted nothing and raised no error.
LoadOperandFailedSoft ==
  /\ translator.call.completed
  /\ LoadOperandZero(translator.call)
  /\ translator.code = <<>>
  /\ ~translator.asserted
  /\ translator.translation_errors = <<>>

UnsupportedTypeStarted ==
  /\ ~translator.is_pixel_shader
  /\ translator.host_vertex_shader_type \notin HostVertexShaderTypes
  /\ translator.trace # <<>>

\* The instructions emitted by the calls after StartTranslation.
CodeAfterStart ==
  [i \in 1..(Len(translator.trace) - 1) |-> translator.trace[i + 1].code]

MaxTranslations == 3

\* Variant of Reset: the bindings of the constant buffers are left as the
\* translation before left them.
ResetKeepingConstantBuffers(tr) ==
  [tr EXCEPT !.shader_code_ = <<>>,
             !.system_temp_count_current_ = 0,
             !.system_temp_count_max_ = 0,
             !.cf_exec_bool_constant_ = kCfExecBoolConstantNone,
             !.cf_exec_predicated_ = FALSE,
             !.cf_instruction_predicate_if_open_ = FALSE,
             !.cf_exec_predicate_written_ = FALSE,
             !.memexport_alloc_current_count_ = 0]

\* Reset(): the fields it assigns; every other field of the translator is
\* left as the translation before left it.
Reset(tr) ==
  [tr EXCEPT !.shader_code_ = <<>>,
             !.cbuffer_count_ = 1,
             !.cbuffer_index_float_constants_ = kBindingIndexUnallocated,
             !.cbuffer_index_bool_loop_constants_ = kBindingIndexUnallocated,
             !.system_temp_count_current_ = 0,
             !.system_temp_count_max_ = 0,
             !.cf_exec_bool_constant_ = kCfExecBoolConstantNone,
             !.cf_exec_predicated_ = FALSE,
             !.cf_instruction_predicate_if_open_ = FALSE,
             !.cf_exec_predicate_written_ = FALSE,
             !.memexport_alloc_current_count_ = 0]

\* ShaderTranslator::Reset and the start of a translation: the translator is
\* given the shader and the modification to translate, and a translation
\* without errors.
BindShader(tr, shader) ==
  [tr EXCEPT !.is_pixel_shader = shader.is_pixel_shader,
             !.is_depth_only_pixel_shader_ = shader.is_depth_only_pixel_shader_,
             !.host_vertex_shader_type = shader.host_vertex_shader_type,
             !.register_count = shader.register_count,
             !.uses_register_dynamic_addressing = shader.uses_register_dynamic_addressing,
             !.float_constants = shader.float_constants,
             !.float_dynamic_addressing = shader.float_dynamic_addressing,
             !.depth_stencil_system_temp_used = shader.depth_stencil_system_temp_used,
             !.writes_color_targets = shader.writes_color_targets,
             !.writes_depth = shader.writes_depth,
             !.rov_depth_stencil_early = shader.rov_depth_stencil_early,
             !.memexport_eM_written = shader.memexport_eM_written,
             !.program = shader.program,
             !.translation_errors = <<>>,
             !.translations.shader = shader]

\* What a translation gives out: the code, the count of registers to
\* declare, the bindings of the constant buffers, and the errors.
Output(tr) ==
  [shader_code_ |-> tr.shader_code_,
   system_temp_count_max_ |-> tr.system_temp_count_max_,
   cbuffer_count_ |-> tr.cbuffer_count_,
   cbuffer_index_float_constants_ |-> tr.cbuffer_index_float_constants_,
   cbuffer_index_bool_loop_constants_ |-> tr.cbuffer_index_bool_loop_constants_,
   translation_errors |-> tr.translation_errors]

\* The translation is over and the translator is reset for the next shader
\* of its queue.
ResetCall ==
  /\ ~translator.asserted
  /\ translator.phase = "completed"
  /\ translator.translations.queue # <<>>
  /\ LET next_shader == Head(translator.translations.queue)
         kept == [translator EXCEPT
                    !.translations.outputs =
                       Append(@, [shader |-> translator.translations.shader,
                                  output |-> Output(translator)]),
                    !.translations.queue = Tail(@),
                    !.phase = "reset", !.trace = <<>>, !.code = <<>>,
                    !.call = [op |-> "Reset"]]
     IN translator' = Reset(BindShader(kept, next_shader))
  /\ UNCHANGED <<pipelineCacheVars, enumerator>>

\* Programs that leave every field of the control flow set: a conditional
\* exec and a jump of its guard; a loop with a predicated exec that writes
\* the predicate; a memexport allocation between labels; and none.
RetranslatedPrograms ==
  { <<>>,
    <<Exec("kConditional", 33, TRUE, FALSE, FALSE), Jump("kConditional", 33, TRUE, 1)>>,
    <<LoopStart(0, FALSE, 2), Exec("kPredicated", 0, TRUE, FALSE, TRUE), LoopEnd(0, TRUE, TRUE, 1)>>,
    <<Label(0), Alloc("kMemory"), Label(1), Exec("kUnconditional", 0, FALSE, TRUE, FALSE)>> }

\* The shaders a translator with or without the rasterizer-ordered view is
\* given: vertex and domain shaders, one of a type without support, pixel
\* shaders with color targets and with the depth written, and the
\* depth-only pixel shader.
RetranslatedShaders(rov) ==
  { [EmptyShader EXCEPT !.host_vertex_shader_type = type,
                        !.register_count = MaxRegisters,
                        !.memexport_eM_written = memexports,
                        !.program = program] :
      type \in {"kVertex", "kQuadDomainPatchIndexed", kLineDomainCPIndexed},
      memexports \in MemExportsWritten, program \in RetranslatedPrograms }
  \cup
  { [EmptyShader EXCEPT !.is_pixel_shader = TRUE,
                        !.depth_stencil_system_temp_used = TRUE,
                        !.writes_depth = ~rov,
                        !.rov_depth_stencil_early = rov,
                        !.writes_color_targets = colors,
                        !.uses_register_dynamic_addressing = TRUE,
                        !.register_count = MaxRegisters,
                        !.program = program] :
      colors \in {0, 10}, program \in RetranslatedPrograms }
  \cup
  (IF rov
     THEN { [EmptyShader EXCEPT !.is_pixel_shader = TRUE,
                                !.is_depth_only_pixel_shader_ = TRUE,
                                !.depth_stencil_system_temp_used = TRUE,
                                !.rov_depth_stencil_early = TRUE] }
     ELSE {})

\* A translator that evaluates assertions or not, with either form of the
\* main loop, is reset for a first shader; an other shader and the first
\* again, or the first again at once, wait to be translated.
InitRetranslation ==
  /\ PipelineCacheStartWith([shaders |-> EmptyFile, pipelines |-> EmptyFile])
  /\ creation_thread_count = 0
  /\ \E checked \in BOOLEAN, use_switch \in BOOLEAN, rov \in BOOLEAN :
       \E first \in RetranslatedShaders(rov), between \in RetranslatedShaders(rov) :
         \E queue \in {<<first>>, <<between, first>>} :
           /\ Len(queue) < MaxTranslations
           /\ translator =
                [TranslatorFor([first EXCEPT !.checked_build = checked,
                                             !.use_switch_for_control_flow = use_switch,
                                             !.edram_rov_used_ = rov])
                   EXCEPT !.translations.shader = first,
                          !.translations.queue = queue]

NextRetranslation ==
  \/ ResetCall
  \/ NextTranslation

SpecRetranslation == InitRetranslation /\ [][NextRetranslation]_vars

MaxPostTranslations == 3

\* The bindings every translator of the shader has found: the fetch
\* constants of its textures and of its samplers.
TranslatorTextureBindings == <<3, 5>>
TranslatorSamplerBindings == <<3>>

\* The shader before any translation: the flag clear, no bindings.
DxbcShaderCreated ==
  [bindings_setup_entered_ |-> FALSE, texture_bindings_ |-> <<>>, used_texture_mask_ |-> 0,
   sampler_bindings_ |-> <<>>]

\* Variant of BindingsSetupEntered: the flag is not looked at.
BindingsSetupEnteredByEveryone(is_valid, dxbc_shader) == is_valid

\* The translation passes the test of its validity and the test_and_set of
\* the flag: it is valid and the flag was clear.
BindingsSetupEntered(is_valid, dxbc_shader) ==
  is_valid /\ ~dxbc_shader.bindings_setup_entered_

\* A thread is at the place in PostTranslation.
PostTranslationAt(t, place) ==
  /\ t \in DOMAIN translator.post.threads
  /\ translator.post.threads[t].pc = place

\* PostTranslation is entered: an invalid translation returns; a valid one
\* sets the flag in one atomic step and goes on to copy when it was clear.
PostTranslationEnter(t) ==
  /\ PostTranslationAt(t, "called")
  /\ LET thread == translator.post.threads[t]
         dxbc_shader == translator.post.dxbc_shader
         enters == BindingsSetupEntered(thread.is_valid, dxbc_shader)
     IN translator' =
          [translator EXCEPT
             !.post.threads[t].pc = IF enters THEN "clear_textures" ELSE "returned",
             !.post.dxbc_shader.bindings_setup_entered_ = @ \/ thread.is_valid,
             !.post.entered = IF enters THEN Append(@, t) ELSE @,
             !.post.threads[t].reached = IF thread.is_valid THEN Len(translator.post.reached) + 1 ELSE 0,
             !.post.reached = IF thread.is_valid THEN Append(@, t) ELSE @]
  /\ UNCHANGED <<pipelineCacheVars, enumerator>>

\* texture_bindings_.clear(), used_texture_mask_ = 0
PostTranslationClearTextures(t) ==
  /\ PostTranslationAt(t, "clear_textures")
  /\ translator' =
       [translator EXCEPT !.post.dxbc_shader.texture_bindings_ = <<>>,
                          !.post.dxbc_shader.used_texture_mask_ = 0,
                          !.post.threads[t].pc = "copy_textures"]
  /\ UNCHANGED <<pipelineCacheVars, enumerator>>

\* One round of the loop over the texture bindings of the translator.
PostTranslationCopyTexture(t) ==
  /\ PostTranslationAt(t, "copy_textures")
  /\ LET copied == Len(translator.post.dxbc_shader.texture_bindings_)
     IN IF copied < Len(TranslatorTextureBindings)
          THEN translator' =
                 [translator EXCEPT
                    !.post.dxbc_shader.texture_bindings_ =
                       Append(@, TranslatorTextureBindings[copied + 1]),
                    !.post.dxbc_shader.used_texture_mask_ =
                       @ + 2^TranslatorTextureBindings[copied + 1]]
          ELSE translator' = [translator EXCEPT !.post.threads[t].pc = "clear_samplers"]
  /\ UNCHANGED <<pipelineCacheVars, enumerator>>

\* sampler_bindings_.clear()
PostTranslationClearSamplers(t) ==
  /\ PostTranslationAt(t, "clear_samplers")
  /\ translator' =
       [translator EXCEPT !.post.dxbc_shader.sampler_bindings_ = <<>>,
                          !.post.threads[t].pc = "copy_samplers"]
  /\ UNCHANGED <<pipelineCacheVars, enumerator>>

\* One round of the loop over the sampler bindings of the translator.
PostTranslationCopySampler(t) ==
  /\ PostTranslationAt(t, "copy_samplers")
  /\ LET copied == Len(translator.post.dxbc_shader.sampler_bindings_)
     IN IF copied < Len(TranslatorSamplerBindings)
          THEN translator' =
                 [translator EXCEPT
                    !.post.dxbc_shader.sampler_bindings_ =
                       Append(@, TranslatorSamplerBindings[copied + 1])]
          ELSE translator' = [translator EXCEPT !.post.threads[t].pc = "returned"]
  /\ UNCHANGED <<pipelineCacheVars, enumerator>>

\* A thread that has returned translates the shader again.
PostTranslationAgain(t, is_valid) ==
  /\ PostTranslationAt(t, "returned")
  /\ translator.post.calls < MaxPostTranslations
  /\ translator' =
       [translator EXCEPT !.post.threads[t] = [pc |-> "called", is_valid |-> is_valid, reached |-> 0],
                          !.post.calls = @ + 1]
  /\ UNCHANGED <<pipelineCacheVars, enumerator>>

\* Two threads have each translated the shader, validly or not, and call
\* PostTranslation.
InitPostTranslation ==
  /\ PipelineCacheStartWith([shaders |-> EmptyFile, pipelines |-> EmptyFile])
  /\ creation_thread_count = 0
  /\ \E first \in BOOLEAN, second \in BOOLEAN :
       translator =
         [TranslatorFor(EmptyShader) EXCEPT
            !.post = [dxbc_shader |-> DxbcShaderCreated,
                      threads |-> <<[pc |-> "called", is_valid |-> first, reached |-> 0],
                                    [pc |-> "called", is_valid |-> second, reached |-> 0]>>,
                      entered |-> <<>>, reached |-> <<>>, calls |-> 2]]

NextPostTranslation ==
  \E t \in 1..2 :
    \/ PostTranslationEnter(t)
    \/ PostTranslationClearTextures(t)
    \/ PostTranslationCopyTexture(t)
    \/ PostTranslationClearSamplers(t)
    \/ PostTranslationCopySampler(t)
    \/ \E is_valid \in BOOLEAN : PostTranslationAgain(t, is_valid)

SpecPostTranslation == InitPostTranslation /\ [][NextPostTranslation]_vars

(***************************************************************************)
(* C31: the bindings are copied once.                                      *)
(***************************************************************************)
\* Some valid translation has returned from PostTranslation.
ValidTranslationReturned ==
  \E t \in DOMAIN translator.post.threads :
    translator.post.threads[t].pc = "returned" /\ translator.post.threads[t].reached > 0

\* C31: over the translations of one shader, in sequence and at the same
\* time, the copy of the bindings is entered at most once, by the first
\* valid translation that reaches the flag, and it has been entered when a
\* valid translation has returned; a translation that is not valid does not
\* enter it and leaves the flag as it was.
C31_BindingsCopiedOnce ==
  /\ Len(translator.post.entered) <= 1
  /\ translator.post.entered # <<>> => translator.post.entered[1] = translator.post.reached[1]
  /\ ValidTranslationReturned => Len(translator.post.entered) = 1
  /\ translator.post.dxbc_shader.bindings_setup_entered_ = (translator.post.reached # <<>>)

\* Of three translations two were valid: one entered the copy, the other
\* has returned without copying.
C31_SecondValidTranslationSkipped ==
  /\ translator.post.calls = 3
  /\ Len(translator.post.reached) = 2
  /\ Len(translator.post.entered) = 1
  /\ \E t \in 1..2 : translator.post.threads[t].pc = "returned"
                       /\ translator.post.threads[t].reached = 2


(***************************************************************************)
(* C38: the bindings of the shader when PostTranslation returns.           *)
(***************************************************************************)
\* The lists of the shader hold all bindings of the translator.
BindingsPopulated ==
  /\ translator.post.dxbc_shader.texture_bindings_ = TranslatorTextureBindings
  /\ translator.post.dxbc_shader.sampler_bindings_ = TranslatorSamplerBindings

\* C38: whenever PostTranslation has returned for a valid translation, the
\* texture and the sampler bindings of the shader are all there, also for
\* the thread that found the flag set by an other thread.
C38_BindingsPopulatedOnReturn == ValidTranslationReturned => BindingsPopulated

\* The same for the translation that entered the copy.
BindingsPopulatedWhenCopierReturns ==
  (translator.post.entered # <<>>
     /\ translator.post.threads[translator.post.entered[1]].pc = "returned"
     /\ translator.post.threads[translator.post.entered[1]].reached = 1)
    => BindingsPopulated


(***************************************************************************)
(* CompleteTranslation: the container around the translated code.          *)
(* shader_object_ is a sequence of dwords; a dword holds a number, the     *)
(* name of a four-character code, or, for the four dwords of the hash,     *)
(* what the checksum was computed from.  What the Write functions put in   *)
(* the dwords they append is left as the zero of resize().                 *)
(***************************************************************************)
\* The longest content a Write function appends, in dwords.
MaxContentDwords == 2
\* sizeof(dxbc::ContainerHeader) / sizeof(uint32_t): the four-character
\* code, four dwords of hash, the version, size_bytes and blob_count.
kContainerHeaderSizeDwords == 8
kBlobHeaderSizeDwords == 2
\* sizeof(dxbc::ShaderFeatureInfo) and sizeof(dxbc::Statistics) in dwords.
kShaderFeatureInfoSizeDwords == 2
kStatisticsSizeDwords == 37
\* The dwords of the container header, counted from 1.
ContainerHashDwords == 2..5
kContainerSizeBytesDword == 7
kContainerBlobCountDword == 8

IsDxbcDomainShader(tr) ==
  ~tr.is_pixel_shader /\ tr.host_vertex_shader_type # "kVertex"

\* The blobs in the order CompleteTranslation writes them.
ContainerBlobs(tr) ==
  <<"RDEF", "ISGN">> \o (IF IsDxbcDomainShader(tr) THEN <<"PCSG">> ELSE <<>>)
    \o <<"OSGN", "SHEX", "SFI0", "STAT">>

\* resize() to a larger size appends zeros.
Resize(dwords, size) ==
  [k \in 1..size |-> IF k <= Len(dwords) THEN dwords[k] ELSE 0]

\* The size counted from the start of the blob header.
BlobSizeBytesWithHeader(blob_position_dwords, offset_bytes) ==
  blob_position_dwords * 4 - offset_bytes

\* blob_header.size_bytes, with blob_position_dwords already moved to the
\* end of the blob.
BlobSizeBytes(blob_position_dwords, offset_bytes) ==
  (blob_position_dwords - kBlobHeaderSizeDwords) * 4 - offset_bytes

\* What CalculateDXBCChecksum computes its hash from: every dword of the
\* container but the hash itself.
DXBCChecksumInput(dwords) ==
  [k \in 1..Len(dwords) |-> IF k \in ContainerHashDwords THEN 0 ELSE dwords[k]]

ContainerAt(state) == translator.container.state = state

\* The offset table is allocated after the header.
CompleteTranslationStart ==
  /\ ContainerAt("called")
  /\ LET blob_count == Len(ContainerBlobs(translator))
         allocated == Resize(<<>>, kContainerHeaderSizeDwords + blob_count)
     IN translator' =
          [translator EXCEPT
             !.container = [state |-> "blobs",
                            shader_object_ |-> allocated,
                            blob_offset_position_dwords |-> kContainerHeaderSizeDwords,
                            blob_position_dwords |-> Len(allocated),
                            returned |-> <<>>]]
  /\ UNCHANGED <<pipelineCacheVars, enumerator>>

\* The content CompleteTranslation appends for a blob: the feature info
\* and the statistics have their size, a Write function appends what it
\* has to.
BlobContentDwords(fourcc, written_dwords) ==
  CASE fourcc = "SFI0" -> kShaderFeatureInfoSizeDwords
    [] fourcc = "STAT" -> kStatisticsSizeDwords
    [] OTHER -> written_dwords

\* One blob: its offset goes to the table, the space of its header is
\* allocated, the content is appended, then the header is filled in.
CompleteTranslationBlob(written_dwords) ==
  /\ ContainerAt("blobs")
  /\ LET c == translator.container
         fourcc == ContainerBlobs(translator)[c.blob_offset_position_dwords - kContainerHeaderSizeDwords + 1]
         with_offset == [c.shader_object_ EXCEPT ![c.blob_offset_position_dwords + 1] = c.blob_position_dwords * 4]
         with_content == Resize(with_offset, c.blob_position_dwords + kBlobHeaderSizeDwords
                                               + BlobContentDwords(fourcc, written_dwords))
         blob_position_dwords == Len(with_content)
         with_header ==
           [with_content EXCEPT
              ![c.blob_position_dwords + 1] = fourcc,
              ![c.blob_position_dwords + 2] =
                 BlobSizeBytes(blob_position_dwords, with_content[c.blob_offset_position_dwords + 1])]
         last == c.blob_offset_position_dwords + 1
                   = kContainerHeaderSizeDwords + Len(ContainerBlobs(translator))
     IN translator' =
          [translator EXCEPT
             !.container.shader_object_ = with_header,
             !.container.blob_position_dwords = blob_position_dwords,
             !.container.blob_offset_position_dwords = @ + 1,
             !.container.state = IF last THEN "header" ELSE "blobs"]
  /\ UNCHANGED <<pipelineCacheVars, enumerator>>

\* The header with the hash first: the size and the blob count are
\* written after it.
ContainerHeaderHashedFirst(dwords, blob_count) ==
  LET hashed == [k \in 1..Len(dwords) |->
                   IF k \in ContainerHashDwords THEN DXBCChecksumInput([dwords EXCEPT ![1] = "DXBC", ![6] = 1])
                   ELSE dwords[k]]
  IN [hashed EXCEPT ![1] = "DXBC", ![6] = 1,
                    ![kContainerSizeBytesDword] = Len(dwords) * 4,
                    ![kContainerBlobCountDword] = blob_count]

\* The identification, the size and the blob count, then the hash.
ContainerHeader(dwords, blob_count) ==
  LET identified == [dwords EXCEPT ![1] = "DXBC", ![6] = 1,
                                   ![kContainerSizeBytesDword] = Len(dwords) * 4,
                                   ![kContainerBlobCountDword] = blob_count]
  IN [k \in 1..Len(dwords) |->
        IF k \in ContainerHashDwords THEN DXBCChecksumInput(identified) ELSE identified[k]]

\* The header is written and the bytes are copied to the returned vector.
CompleteTranslationHeader ==
  /\ ContainerAt("header")
  /\ LET c == translator.container
         complete == ContainerHeader(c.shader_object_, Len(ContainerBlobs(translator)))
     IN translator' =
          [translator EXCEPT
             !.container.shader_object_ = complete,
             !.container.returned = SubSeq(complete, 1, complete[kContainerSizeBytesDword] \div 4),
             !.container.state = "returned"]
  /\ UNCHANGED <<pipelineCacheVars, enumerator>>

ContainerShaders ==
  { [EmptyShader EXCEPT !.is_pixel_shader = pixel, !.host_vertex_shader_type = type]
      : pixel \in BOOLEAN, type \in {"kVertex", "kTriangleDomainCPIndexed", "kQuadDomainPatchIndexed"} }

InitContainer ==
  /\ PipelineCacheStartWith([shaders |-> EmptyFile, pipelines |-> EmptyFile])
  /\ creation_thread_count = 0
  /\ \E shader \in ContainerShaders :
       translator = [TranslatorFor(shader) EXCEPT !.container.state = "called"]

NextContainer ==
  \/ CompleteTranslationStart
  \/ \E written_dwords \in 1..MaxContentDwords : CompleteTranslationBlob(written_dwords)
  \/ CompleteTranslationHeader

SpecContainer == InitContainer /\ [][NextContainer]_vars

(***************************************************************************)
(* C32: the returned container, read as a consumer reads it.               *)
(***************************************************************************)
\* The offset, in bytes, of the blob number b of a container.
BlobOffset(dwords, b) == dwords[kContainerHeaderSizeDwords + b]
\* Where the blob after number b starts, or the container ends.
BlobEnd(dwords, b) ==
  IF b < dwords[kContainerBlobCountDword] THEN BlobOffset(dwords, b + 1) ELSE Len(dwords) * 4

HasBlob(blobs, fourcc) == \E b \in 1..Len(blobs) : blobs[b] = fourcc

ContainerWellFormed(dwords, blobs) ==
  /\ dwords[kContainerBlobCountDword] = Len(blobs)
  /\ Len(blobs) = IF HasBlob(blobs, "PCSG") THEN 7 ELSE 6
  /\ dwords[kContainerSizeBytesDword] = Len(dwords) * 4
  /\ BlobOffset(dwords, 1) = (kContainerHeaderSizeDwords + Len(blobs)) * 4
  /\ \A b \in 1..Len(blobs) :
       /\ BlobOffset(dwords, b) < BlobEnd(dwords, b)
       /\ dwords[BlobOffset(dwords, b) \div 4 + 1] = blobs[b]
       /\ dwords[BlobOffset(dwords, b) \div 4 + 2]
            = BlobEnd(dwords, b) - (BlobOffset(dwords, b) + kBlobHeaderSizeDwords * 4)
  /\ \A k \in ContainerHashDwords : dwords[k] = DXBCChecksumInput(dwords)

\* C32: the container CompleteTranslation returns lists six blobs, seven
\* for a domain shader, in their fixed order; the offsets in the table
\* increase strictly; the size of each blob is the bytes from the end of
\* its header to the next offset or the end; the size of the header is the
\* length of the container; the hash is that of the container as returned.
C32_ContainerWellFormed ==
  ContainerAt("returned") =>
    /\ ContainerWellFormed(translator.container.returned, ContainerBlobs(translator))
    /\ HasBlob(ContainerBlobs(translator), "PCSG") = IsDxbcDomainShader(translator)

\* A container of a domain shader with seven blobs has been returned.
C32_DomainShaderContainerReturned ==
  /\ ContainerAt("returned")
  /\ IsDxbcDomainShader(translator)
  /\ translator.container.returned[kContainerBlobCountDword] = 7
  /\ BlobOffset(translator.container.returned, 7) > BlobOffset(translator.container.returned, 6)


(***************************************************************************)
(* C37: the assertion of CreateQueuedPipelinesOnProcessorThread.           *)
(***************************************************************************)
\* C37: assert_false(creation_threads_.empty()) in
\* CreateQueuedPipelinesOnProcessorThread holds on every path that calls
\* it, the replay of the pipeline log without creation threads included.
C37_CreationThreadsAsserted == "creation_threads_.empty()" \notin assert_failed

\* The same for the call in EndSubmission alone.
EndSubmissionAssertsCreationThreads ==
  \A c \in Callers :
    (pc[c] \in {"drain", "es_await"} /\ frame[c].op = "EndSubmission") => creation_thread_count # 0


(***************************************************************************)
(* C35: what a blocking InitializeShaderStorage leaves to be compiled.     *)
(***************************************************************************)
\* Thread c returns from InitializeShaderStorage called with blocking set.
BlockingInitializationReturns(c) ==
  /\ pc[c] \in {"is_finish", "wait_event"}
  /\ frame[c].op = "InitializeShaderStorage"
  /\ frame[c].blocking
  /\ pc'[c] = "idle"

\* C35: when InitializeShaderStorage was called with blocking set, then at
\* its return the creation queue is empty and no creation thread is busy:
\* every replayed pipeline has had its compile attempt.
C35_BlockingInitializationCompiles ==
  [][\A c \in Callers :
       BlockingInitializationReturns(c) =>
         creation_queue_' = <<>> /\ creation_threads_busy_' = 0]_vars

\* The same without creation threads.
BlockingInitializationCompilesInline ==
  [][\A c \in Callers :
       (BlockingInitializationReturns(c) /\ creation_thread_count = 0) =>
         \A id \in pipelines_' : pipeline'[id].created = 1]_vars


(***************************************************************************)
(* C36: the flush EndSubmission requests.                                  *)
(***************************************************************************)
\* The storage write thread has taken a flush request into its local flag
\* and has not come back to the fflush at the top of its loop.
FlushTaken == storage_local.flush_shaders \/ storage_local.flush_pipelines

\* A flush was requested and fflush has not been called for it.
FlushPending ==
  /\ storage_write_thread_
  /\ storage_pc # "done"
  /\ storage_write_flush_shaders_ \/ storage_write_flush_pipelines_ \/ FlushTaken

\* C36: after EndSubmission has requested a flush the storage write thread
\* performs it without a later notification: the thread never blocks on
\* storage_write_request_cond_ with a flush it has taken and not performed.
C36_FlushNeedsNoLaterWakeup == ~(storage_pc = "wait" /\ FlushTaken)

\* Every requested flush is performed in the end.
FlushEventuallyPerformed == FlushPending ~> ~FlushPending


(***************************************************************************)
(* PipelineCache::Shutdown                                                 *)
(***************************************************************************)
\* ClearCache(true): the start of Shutdown.
Shutdown(c) ==
  /\ CanCall(c)
  /\ Begin(c)
  /\ RequestStorageShutdown
  /\ pc' = [pc EXCEPT ![c] = "ss_join"]
  /\ frame' = [frame EXCEPT ![c] =
       [EmptyFrame EXCEPT !.op = "Shutdown", !.shutting_down = TRUE,
                          !.return_to = "cc_queue"]]
  /\ out' = [out EXCEPT ![c] = NoResult]
  /\ UNCHANGED <<creation_thread_count, cacheVars, creationVars, storageQueueVars,
                 storage_write_thread_, storage_write_flush_shaders_,
                 storage_write_flush_pipelines_, shader_storage_file_,
                 pipeline_storage_file_, shader_storage_file_flush_needed_,
                 pipeline_storage_file_flush_needed_,
                 storage_local, fileVars, assert_failed, crashed>>
  /\ UNCHANGED <<translator, enumerator>>

\* creation_threads_shutdown_from_ = 0 under the lock, then notify_all.
ShutdownThreads(c) ==
  /\ pc[c] = "sd_threads"
  /\ ~crashed
  /\ IF creation_thread_count # 0
       THEN /\ creation_threads_shutdown_from_' = 0
            /\ creation_pc' = CreationNotifyAll(creation_pc)
            /\ pc' = [pc EXCEPT ![c] = "sd_join"]
       ELSE /\ pc' = [pc EXCEPT ![c] = "shut_down"]
            /\ UNCHANGED <<creation_threads_shutdown_from_, creation_pc>>
  /\ UNCHANGED <<creation_thread_count, cacheVars, creation_queue_,
                 creation_threads_busy_, creation_completion_event_,
                 creation_completion_set_event_, creation_local, storageVars,
                 assert_failed, crashed, frame, out, overlapped, calls>>
  /\ UNCHANGED <<translator, enumerator>>

\* xe::threading::Wait on every creation thread returns once the function
\* of the thread has returned.
CreationThreadsJoined == \A t \in CreationThreads : creation_pc[t] = "done"

\* The joins; the cache is not called again.
ShutdownJoin(c) ==
  /\ pc[c] = "sd_join"
  /\ ~crashed
  /\ CreationThreadsJoined
  /\ pc' = [pc EXCEPT ![c] = "shut_down"]
  /\ UNCHANGED <<creation_thread_count, cacheVars, creationVars, storageVars,
                 assert_failed, crashed, frame, out, overlapped, calls>>
  /\ UNCHANGED <<translator, enumerator>>

\* Draws without a pixel shader whose shader translates.
DrawVertexOnly(c) ==
  \/ \E vs \in VertexShaderHashes, ff \in FixedFunctionStates :
       ConfigurePipeline(c, vs, NoShader, ff, TRUE, TRUE, TRUE)
  \/ ConfigurePipelineTranslatePixel(c, TRUE)
  \/ \E ok \in BOOLEAN : ConfigurePipelineInsert(c, ok)
  \/ ConfigurePipelineStore(c)

\* What the command processor thread does inside a call it has started.
ProcessorGoesOn(c) ==
  \/ EndSubmissionAwait(c)
  \/ \E ok \in BOOLEAN : CreateQueuedPipelinesOnProcessorThread(c, ok)
  \/ WaitCreationCompletion(c)
  \/ ShutdownShaderStorageJoin(c)
  \/ ClearCacheQueue(c)
  \/ ClearCacheDestroy(c)
  \/ ShutdownThreads(c)
  \/ ShutdownJoin(c)

\* A creation thread goes on unless it waits on the condition variable.
CreationThreadGoesOn(t) ==
  \/ CreationThreadDequeue(t)
  \/ \E ok \in BOOLEAN : CreationThreadCreate(t, ok)
  \/ CreationThreadDecrement(t)

\* The cache starts without shader storage and with two creation threads
\* at least.
InitShutdown ==
  /\ PipelineCacheStartWithThreads([shaders |-> EmptyFile, pipelines |-> EmptyFile],
                                   2..(MaxCreationThreads + 1))
  /\ translator = ResetTranslator
  /\ enumerator = NoEnumerator

NextShutdown ==
  \/ DrawVertexOnly(ProcessorThread)
  \/ \E h \in VertexShaderHashes : LoadShader(ProcessorThread, h)
  \/ EndSubmission(ProcessorThread)
  \/ ClearCache(ProcessorThread, FALSE)
  \/ Shutdown(ProcessorThread)
  \/ ProcessorGoesOn(ProcessorThread)
  \/ \E t \in CreationThreadIds :
       CreationThreadGoesOn(t) \/ CreationThreadSpuriousWakeup(t)

SpecShutdown == InitShutdown /\ [][NextShutdown]_vars

\* The creation threads are threads of the operating system and the
\* command processor thread goes on with the call it is in; a compilation
\* returns. No spurious wakeup and no further call is promised.
FairSpecShutdown ==
  /\ SpecShutdown
  /\ WF_vars(ProcessorGoesOn(ProcessorThread))
  /\ \A t \in CreationThreadIds : WF_vars(CreationThreadGoesOn(t))

(***************************************************************************)
(* C33: the waits on the creation threads.                                 *)
(***************************************************************************)
WaitingForCompletion == pc[ProcessorThread] = "wait_event"
ShuttingDown == frame[ProcessorThread].op = "Shutdown" /\ pc[ProcessorThread] # "shut_down"
ShutDown ==
  /\ pc[ProcessorThread] = "shut_down"
  /\ \A t \in CreationThreads : creation_pc[t] = "done"

\* C33: with fair scheduling and compilations that return, every wait on
\* creation_completion_event_ returns and Shutdown joins every creation
\* thread.
C33_WaitsReturnAndShutdownJoins ==
  /\ WaitingForCompletion ~> ~WaitingForCompletion
  /\ ShuttingDown ~> ShutDown

\* No wakeup is lost: a wait returns, and Shutdown joins the threads unless
\* ClearCache has ended the process before.
NoLostWakeup ==
  /\ WaitingForCompletion ~> ~WaitingForCompletion
  /\ ShuttingDown ~> (ShutDown \/ crashed)


(***************************************************************************)
(* PipelineCache::TranslateShader: the unique IDs of the binding layouts.  *)
(* The two tables of the cache are kept in translator.layouts, together    *)
(* with the layouts and the UIDs of the shaders translated so far.  A      *)
(* texture binding and a bindless descriptor index are numbers; XXH64 is   *)
(* a function of the hashed values that is far from injective.             *)
(***************************************************************************)
\* The most bindings of one kind in a shader.
MaxBindings == 2
\* The most translations between two ClearCache calls.
MaxLayoutTranslations == 3
kLayoutUIDEmpty == 0
BindingValues == {1, 2}
BindingLayouts == UNION {[1..n -> BindingValues] : n \in 0..MaxBindings}

RECURSIVE SumOf(_)
SumOf(values) == IF values = <<>> THEN 0 ELSE Head(values) + SumOf(Tail(values))

XXH64(values) == SumOf(values) % 3

\* The entries of a layout map with a key, in the order equal_range gives.
EqualRange(layout_map, key) == SelectSeq(layout_map, LAMBDA entry : entry.hash = key)

\* The part of a layout vector that an entry of a map spans.
VectorSpan(layout_vector, entry) ==
  SubSeq(layout_vector, entry.vector_span_offset + 1,
         entry.vector_span_offset + entry.vector_span_length)

\* The UID of the first entry in the range whose span holds the bindings,
\* kLayoutUIDEmpty when there is none.
FoundLayoutUID(found_range, layout_vector, bindings) ==
  LET matching == SelectSeq(found_range,
                            LAMBDA entry : /\ entry.vector_span_length = Len(bindings)
                                           /\ VectorSpan(layout_vector, entry) = bindings)
  IN IF matching = <<>> THEN kLayoutUIDEmpty ELSE matching[1].uid

NewLayoutUID(layout_hash, uid, offset, length) ==
  [hash |-> layout_hash, uid |-> uid, vector_span_offset |-> offset, vector_span_length |-> length]

\* The texture bindings: the table is searched by the hash of the layout;
\* a new layout gets the size of the map plus one.
TextureBindingLayout(layouts, texture_bindings) ==
  LET texture_binding_layout_hash == XXH64(texture_bindings)
      found == FoundLayoutUID(EqualRange(layouts.texture_binding_layout_map_, texture_binding_layout_hash),
                              layouts.texture_binding_layouts_, texture_bindings)
      uid == Len(layouts.texture_binding_layout_map_) + 1
  IN IF texture_bindings = <<>> THEN [layouts |-> layouts, uid |-> kLayoutUIDEmpty]
     ELSE IF found # kLayoutUIDEmpty THEN [layouts |-> layouts, uid |-> found]
     ELSE [layouts |->
             [layouts EXCEPT
                !.texture_binding_layout_map_ =
                   Append(@, NewLayoutUID(texture_binding_layout_hash, uid,
                                          Len(layouts.texture_binding_layouts_),
                                          Len(texture_bindings))),
                !.texture_binding_layouts_ = @ \o texture_bindings],
           uid |-> uid]

\* The samplers searched by the hash of their layout, and the UID of the
\* shader the one that is stored.
BindlessSamplerLayoutByHash(layouts, sampler_bindings) ==
  LET bindless_sampler_layout_hash == XXH64(sampler_bindings)
      found == FoundLayoutUID(EqualRange(layouts.bindless_sampler_layout_map_, bindless_sampler_layout_hash),
                              layouts.bindless_sampler_layouts_, sampler_bindings)
      uid == Len(layouts.bindless_sampler_layout_map_) + 1
  IN IF found # kLayoutUIDEmpty THEN [layouts |-> layouts, uid |-> found]
     ELSE [layouts |->
             [layouts EXCEPT
                !.bindless_sampler_layout_map_ =
                   Append(@, NewLayoutUID(bindless_sampler_layout_hash, uid,
                                          Len(layouts.bindless_sampler_layouts_),
                                          Len(sampler_bindings))),
                !.bindless_sampler_layouts_ = @ \o sampler_bindings],
           uid |-> uid]

\* The bindless samplers: the table is searched by
\* sampler_binding_layout_uid, which is kLayoutUIDEmpty here, and filled
\* by the hash of the layout; for a new layout the shader gets the size of
\* the map and the entry the size plus one.
BindlessSamplerLayout(layouts, sampler_bindings) ==
  LET bindless_sampler_layout_hash == XXH64(sampler_bindings)
      sampler_binding_layout_uid == kLayoutUIDEmpty
      found == FoundLayoutUID(EqualRange(layouts.bindless_sampler_layout_map_, sampler_binding_layout_uid),
                              layouts.bindless_sampler_layouts_, sampler_bindings)
      uid == Len(layouts.bindless_sampler_layout_map_)
  IN IF found # kLayoutUIDEmpty THEN [layouts |-> layouts, uid |-> found]
     ELSE [layouts |->
             [layouts EXCEPT
                !.bindless_sampler_layout_map_ =
                   Append(@, NewLayoutUID(bindless_sampler_layout_hash, uid + 1,
                                          Len(layouts.bindless_sampler_layouts_),
                                          Len(sampler_bindings))),
                !.bindless_sampler_layouts_ = @ \o sampler_bindings],
           uid |-> uid]

\* The UID of the sampler layout: the count of the samplers when they are
\* bindful, the UID of the table when they are bindless and there are any.
SamplerBindingLayout(layouts, sampler_bindings) ==
  IF ~layouts.bindless_resources_used_
    THEN [layouts |-> layouts, uid |-> Len(sampler_bindings)]
  ELSE IF sampler_bindings = <<>> THEN [layouts |-> layouts, uid |-> kLayoutUIDEmpty]
  ELSE BindlessSamplerLayout(layouts, sampler_bindings)

\* The part of TranslateShader after the translation: both UIDs are
\* obtained under layouts_mutex_ and set in the shader.
TranslateShaderLayouts(texture_bindings, sampler_bindings) ==
  /\ translator.layouts.translations < MaxLayoutTranslations
  /\ LET textures == TextureBindingLayout(translator.layouts, texture_bindings)
         samplers == SamplerBindingLayout(textures.layouts, sampler_bindings)
     IN translator' =
          [translator EXCEPT
             !.layouts = [samplers.layouts EXCEPT
                            !.translations = @ + 1,
                            !.translated =
                               Append(@, [texture_bindings |-> texture_bindings,
                                          sampler_bindings |-> sampler_bindings,
                                          texture_binding_layout_uid |-> textures.uid,
                                          sampler_binding_layout_uid |-> samplers.uid])]]
  /\ UNCHANGED <<pipelineCacheVars, enumerator>>

\* ClearCache: the tables are cleared and the shaders are deleted.
ClearCacheLayouts ==
  /\ translator.layouts.translated # <<>>
  /\ translator' =
       [translator EXCEPT
          !.layouts = [NoLayouts EXCEPT !.bindless_resources_used_ =
                                           translator.layouts.bindless_resources_used_]]
  /\ UNCHANGED <<pipelineCacheVars, enumerator>>

InitLayouts ==
  /\ PipelineCacheStartWith([shaders |-> EmptyFile, pipelines |-> EmptyFile])
  /\ creation_thread_count = 0
  /\ \E bindless_resources_used_ \in BOOLEAN :
       translator = [ResetTranslator EXCEPT
                       !.layouts.bindless_resources_used_ = bindless_resources_used_]

NextLayouts ==
  \/ \E texture_bindings \in BindingLayouts, sampler_bindings \in BindingLayouts :
       TranslateShaderLayouts(texture_bindings, sampler_bindings)
  \/ ClearCacheLayouts

SpecLayouts == InitLayouts /\ [][NextLayouts]_vars

(***************************************************************************)
(* C34: the UIDs of the binding layouts.                                   *)
(***************************************************************************)
ShadersWithLayouts == 1..Len(translator.layouts.translated)

TextureLayoutUIDsCanonical ==
  LET shader == translator.layouts.translated
  IN /\ \A a, b \in ShadersWithLayouts :
          (shader[a].texture_bindings = shader[b].texture_bindings)
            <=> (shader[a].texture_binding_layout_uid = shader[b].texture_binding_layout_uid)
     /\ \A a \in ShadersWithLayouts :
          (shader[a].texture_bindings = <<>>)
            <=> (shader[a].texture_binding_layout_uid = kLayoutUIDEmpty)

BindlessSamplerLayoutUIDsCanonical ==
  LET shader == translator.layouts.translated
  IN translator.layouts.bindless_resources_used_ =>
       /\ \A a, b \in ShadersWithLayouts :
            (shader[a].sampler_bindings = shader[b].sampler_bindings)
              <=> (shader[a].sampler_binding_layout_uid = shader[b].sampler_binding_layout_uid)
       /\ \A a \in ShadersWithLayouts :
            (shader[a].sampler_bindings = <<>>)
              <=> (shader[a].sampler_binding_layout_uid = kLayoutUIDEmpty)

\* C34: over every sequence of translations the UIDs of the texture
\* binding layouts and of the bindless sampler layouts are canonical: the
\* same UID for equal layouts, different UIDs for different layouts, and
\* UID 0 for the empty layout only.
C34_LayoutUIDsCanonical ==
  TextureLayoutUIDsCanonical /\ BindlessSamplerLayoutUIDsCanonical


(***************************************************************************)
(* The instructions of an exec with a predicate of their own, and the      *)
(* translation of programs that hold them.                                 *)
(***************************************************************************)
\* The most instructions with UpdateInstructionPredicationAndEmitDisassembly
\* in one translation.
MaxPredicatedInstructions == 2
\* The longest program of the translations with such instructions.
MaxBlockInstructions == 2

UpdateInstructionPredicationAndEmitDisassembly(tr, predicated, condition) ==
  IF ~predicated THEN CloseInstructionPredication(tr)
  ELSE IF tr.cf_instruction_predicate_if_open_ /\ tr.cf_instruction_predicate_condition_ = condition
    THEN tr
  ELSE LET closed == CloseInstructionPredication(tr)
       IN IF ~closed.cf_exec_predicate_written_ /\ closed.cf_exec_predicated_
               /\ closed.cf_exec_predicate_condition_ = condition
            THEN closed
            ELSE [Emit(closed, <<OpIf(condition, SrcRSwizzled(tr.system_temp_ps_pc_p0_a0_, kZZZZ))>>)
                    EXCEPT !.cf_instruction_predicate_if_open_ = TRUE,
                           !.cf_instruction_predicate_condition_ = condition]

\* The calls of the trace with the operation.
CallsOf(trace, op) == Cardinality({k \in 1..Len(trace) : trace[k].op = op})

\* An instruction inside the exec that is being translated.
UpdateInstructionPredicationCall(predicated, condition) ==
  /\ NextInstructionIs("exec")
  /\ Head(translator.program).stage # "begin"
  /\ CallsOf(translator.trace, "UpdateInstructionPredicationAndEmitDisassembly")
       < MaxPredicatedInstructions
  /\ translator' =
       EndCall(UpdateInstructionPredicationAndEmitDisassembly([translator EXCEPT !.code = <<>>],
                                                              predicated, condition),
               "UpdateInstructionPredicationAndEmitDisassembly",
               [predicated |-> predicated, condition |-> condition])
  /\ UNCHANGED <<pipelineCacheVars, enumerator>>

BlockShaders ==
  { [EmptyShader EXCEPT !.register_count = MaxRegisters,
                        !.use_switch_for_control_flow = use_switch,
                        !.program = program] :
      use_switch \in BOOLEAN, program \in Programs(MaxBlockInstructions) }

InitBlocks ==
  /\ PipelineCacheStartWith([shaders |-> EmptyFile, pipelines |-> EmptyFile])
  /\ creation_thread_count = 0
  /\ translator \in {TranslatorFor(shader) : shader \in BlockShaders}

NextBlocks ==
  \/ NextTranslation
  \/ \E predicated \in BOOLEAN, condition \in BOOLEAN :
       UpdateInstructionPredicationCall(predicated, condition)

SpecBlocks == InitBlocks /\ [][NextBlocks]_vars

(***************************************************************************)
(* C39: the blocks of the emitted control flow.                            *)
(***************************************************************************)
BlockOpens == {"loop", "switch", "if"}
BlockOfClose(op) ==
  CASE op = "endloop" -> "loop" [] op = "endswitch" -> "switch" [] op = "endif" -> "if"
    [] OTHER -> "none"

\* The blocks that are open after the first instructions of the code, the
\* innermost last; <<"unmatched">> once a close, an `else` or a `case` has
\* met an other block than its own.
RECURSIVE OpenBlocks(_, _)
OpenBlocks(code, upto) ==
  IF upto = 0 THEN <<>>
  ELSE LET before == OpenBlocks(code, upto - 1)
           op == code[upto].op
           innermost == IF before = <<>> THEN "none" ELSE before[Len(before)]
       IN CASE before = <<"unmatched">> -> before
            [] op \in BlockOpens -> Append(before, op)
            [] BlockOfClose(op) # "none" ->
                 IF innermost = BlockOfClose(op) THEN SubSeq(before, 1, Len(before) - 1)
                 ELSE <<"unmatched">>
            [] op = "else" -> IF innermost = "if" THEN before ELSE <<"unmatched">>
            [] op = "case" -> IF innermost = "switch" THEN before ELSE <<"unmatched">>
            [] OTHER -> before

\* The conditional blocks the translator holds open between two calls: the
\* block of the label in the `if` form of the main loop, the guard of the
\* exec and the predicate check of the instruction.
ConditionalBlocksHeld(tr) ==
  (IF tr.use_switch_for_control_flow THEN 0 ELSE 1)
    + (IF tr.cf_exec_bool_constant_ # kCfExecBoolConstantNone \/ tr.cf_exec_predicated_ THEN 1 ELSE 0)
    + (IF tr.cf_instruction_predicate_if_open_ THEN 1 ELSE 0)

\* The blocks of the main loop with so many conditional blocks in it.
MainLoopBlocks(tr, conditionals) ==
  <<"loop">> \o (IF tr.use_switch_for_control_flow THEN <<"switch">> ELSE <<>>)
    \o [k \in 1..conditionals |-> "if"]

\* C39: in the `switch` and in the `if` form the emitted control flow is
\* made of properly nested blocks: every close matches the innermost open
\* block; between two calls the open blocks are the main loop, its switch
\* if there is one, and one `if` for the label block of the `if` form, one
\* for an open guard of the exec and one for an open predicate check of an
\* instruction; after CompleteShaderCode no block is open.
C39_ControlFlowBlockStructured ==
  LET open == OpenBlocks(translator.shader_code_, Len(translator.shader_code_))
  IN /\ translator.phase = "body" /\ ~translator.is_depth_only_pixel_shader_
          => open = MainLoopBlocks(translator, ConditionalBlocksHeld(translator))
     /\ translator.phase = "completed" /\ ~translator.is_depth_only_pixel_shader_
          => open = <<>>

\* In the `if` form the block of the label, the guard of an exec and the
\* predicate check of an instruction are open at once.
C39_ThreeConditionalBlocksOpen ==
  /\ translator.phase = "body"
  /\ ~translator.use_switch_for_control_flow
  /\ ConditionalBlocksHeld(translator) = 3
  /\ OpenBlocks(translator.shader_code_, Len(translator.shader_code_)) = <<"loop", "if", "if", "if">>


(***************************************************************************)
(* XStaticEnumerator: AppendItem and WriteItems.  The vector buffer_ is     *)
(* modelled byte by byte; the caller of AppendItem fills the item it got    *)
(* before it makes another call, and the caller of WriteItems passes a      *)
(* buffer of buffer_size bytes it has filled with -1.                       *)
(***************************************************************************)
MaxItemsPerEnumerate == 2
MaxItemSize == 2
MaxItems == 3
MaxBufferSize == 4
MaxEnumeratorCalls == 6

X_ERROR_SUCCESS == "X_ERROR_SUCCESS"
X_ERROR_NO_MORE_FILES == "X_ERROR_NO_MORE_FILES"
X_ERROR_INSUFFICIENT_BUFFER == "X_ERROR_INSUFFICIENT_BUFFER"

\* XEnumerator::XEnumerator and XStaticEnumerator::XStaticEnumerator: an
\* enumerator of no items with its cursor on the first one.
XStaticEnumerator(items_per_enumerate, item_size) ==
  [NoEnumerator EXCEPT !.items_per_enumerate_ = items_per_enumerate,
                       !.item_size_ = item_size,
                       !.item_count_ = 0,
                       !.current_item_ = 0]

\* The bytes the caller writes into the n-th item it appends.
ItemBytes(n, item_size) == [j \in 1..item_size |-> 10 * n + j]

\* std::min(a, b)
StdMin(a, b) == IF b < a THEN b ELSE a

\* XStaticEnumerator::AppendItem: the enumerator after the call and the
\* offset in buffer_ of the item the returned pointer points to.
AppendItem(e) ==
  LET item_count == e.item_count_ + 1
  IN  [enumerator |-> [e EXCEPT !.item_count_ = item_count,
                                !.buffer_ = Resize(e.buffer_, item_count * e.item_size_)],
       ptr |-> (item_count - 1) * e.item_size_]

\* WriteItems with the offset counted in items instead of bytes.
WriteItemsOffsetInItems(e, buffer_data, buffer_size, has_written_count) ==
  LET count == StdMin(e.item_count_ - e.current_item_, e.items_per_enumerate_)
      size == count * e.item_size_
      offset == e.current_item_
  IN  IF count = 0
      THEN [enumerator |-> e, buffer_data |-> buffer_data, result |-> X_ERROR_NO_MORE_FILES]
      ELSE IF size > buffer_size
      THEN [enumerator |-> e, buffer_data |-> buffer_data,
            result |-> X_ERROR_INSUFFICIENT_BUFFER]
      ELSE [enumerator |->
              [e EXCEPT !.current_item_ = e.current_item_ + count,
                        !.written_count = IF has_written_count THEN count ELSE @],
            buffer_data |->
              [k \in 1..Len(buffer_data) |->
                 IF k <= size THEN e.buffer_[offset + k] ELSE buffer_data[k]],
            result |-> X_ERROR_SUCCESS]

\* XStaticEnumerator::WriteItems(buffer_ptr, buffer_data, buffer_size,
\* written_count): the enumerator and the caller's buffer after the call, and
\* the value returned.  written_count is the caller's variable, written only
\* when the pointer to it is not null.
WriteItems(e, buffer_data, buffer_size, has_written_count) ==
  LET count == StdMin(e.item_count_ - e.current_item_, e.items_per_enumerate_)
      size == count * e.item_size_
      offset == e.current_item_ * e.item_size_
  IN  IF count = 0
      THEN [enumerator |-> e, buffer_data |-> buffer_data, result |-> X_ERROR_NO_MORE_FILES]
      ELSE IF size > buffer_size
      THEN [enumerator |-> e, buffer_data |-> buffer_data,
            result |-> X_ERROR_INSUFFICIENT_BUFFER]
      ELSE [enumerator |->
              [e EXCEPT !.current_item_ = e.current_item_ + count,
                        !.written_count = IF has_written_count THEN count ELSE @],
            buffer_data |->
              [k \in 1..Len(buffer_data) |->
                 IF k <= size THEN e.buffer_[offset + k] ELSE buffer_data[k]],
            result |-> X_ERROR_SUCCESS]

\* A caller appends an item and fills it.
AppendItemCall ==
  /\ enumerator.calls < MaxEnumeratorCalls
  /\ enumerator.item_count_ < MaxItems
  /\ LET appended == AppendItem(enumerator)
         item == ItemBytes(appended.enumerator.item_count_, enumerator.item_size_)
     IN  enumerator' =
           [appended.enumerator EXCEPT
              !.buffer_ = [k \in 1..Len(@) |->
                             IF k > appended.ptr /\ k <= appended.ptr + Len(item)
                             THEN item[k - appended.ptr] ELSE @[k]],
              !.appended = Append(@, item),
              !.calls = @ + 1,
              !.call = [NoEnumeratorCall EXCEPT !.name = "AppendItem",
                                                !.result = appended.ptr]]
  /\ UNCHANGED <<pipelineCacheVars, translator>>

\* A caller calls WriteItems with a buffer of buffer_size bytes.
WriteItemsCall(buffer_size, has_written_count) ==
  /\ enumerator.calls < MaxEnumeratorCalls
  /\ LET written == WriteItems(enumerator, [k \in 1..buffer_size |-> -1],
                               buffer_size, has_written_count)
     IN  enumerator' =
           [written.enumerator EXCEPT
              !.copied = @ \o SelectSeq(written.buffer_data, LAMBDA b : b # -1),
              !.calls = @ + 1,
              !.call = [name |-> "WriteItems", result |-> written.result,
                        buffer_size |-> buffer_size,
                        buffer_data |-> written.buffer_data,
                        has_written_count |-> has_written_count]]
  /\ UNCHANGED <<pipelineCacheVars, translator>>

InitEnumerator ==
  /\ PipelineCacheStartWithThreads([shaders |-> EmptyFile, pipelines |-> EmptyFile], {0})
  /\ translator = ResetTranslator
  /\ \E items_per_enumerate \in 1..MaxItemsPerEnumerate, item_size \in 1..MaxItemSize :
       enumerator = XStaticEnumerator(items_per_enumerate, item_size)

NextEnumerator ==
  \/ AppendItemCall
  \/ \E buffer_size \in 0..MaxBufferSize, has_written_count \in BOOLEAN :
       WriteItemsCall(buffer_size, has_written_count)

SpecEnumerator == InitEnumerator /\ [][NextEnumerator]_vars

(***************************************************************************)
(* C40                                                                     *)
(***************************************************************************)
RECURSIVE ItemsConcatenated(_, _)
\* The first n of the items, one after the other.
ItemsConcatenated(items, n) ==
  IF n = 0 THEN <<>> ELSE ItemsConcatenated(items, n - 1) \o items[n]

\* What has been copied out so far is the first current_item_ appended items.
CopiedIsAppendedPrefix ==
  /\ enumerator.current_item_ <= enumerator.item_count_
  /\ enumerator.item_count_ = Len(enumerator.appended)
  /\ enumerator.copied = ItemsConcatenated(enumerator.appended, enumerator.current_item_)

\* What one call of WriteItems does.
WriteItemsStep ==
  (enumerator'.calls = enumerator.calls + 1 /\ enumerator'.call.name = "WriteItems") =>
    LET remaining == enumerator.item_count_ - enumerator.current_item_
        expected == IF remaining < enumerator.items_per_enumerate_
                    THEN remaining ELSE enumerator.items_per_enumerate_
    IN  IF enumerator'.call.result = X_ERROR_SUCCESS
        THEN /\ expected > 0
             /\ enumerator'.current_item_ = enumerator.current_item_ + expected
             /\ Len(enumerator'.copied) =
                  Len(enumerator.copied) + expected * enumerator.item_size_
             /\ enumerator'.call.has_written_count => enumerator'.written_count = expected
             /\ ~enumerator'.call.has_written_count =>
                  enumerator'.written_count = enumerator.written_count
        ELSE /\ enumerator'.call.result \in {X_ERROR_NO_MORE_FILES, X_ERROR_INSUFFICIENT_BUFFER}
             /\ \A k \in 1..Len(enumerator'.call.buffer_data) :
                  enumerator'.call.buffer_data[k] = -1
             /\ enumerator'.copied = enumerator.copied
             /\ enumerator'.current_item_ = enumerator.current_item_
             /\ enumerator'.written_count = enumerator.written_count

\* C40: for every sequence of AppendItem and WriteItems calls the items copied
\* out by the successful WriteItems calls, in call order, are exactly the first
\* current_item_ appended items; a successful call copies min(remaining items,
\* items_per_enumerate) items, and a call that returns X_ERROR_NO_MORE_FILES or
\* X_ERROR_INSUFFICIENT_BUFFER copies nothing and leaves the cursor and
\* written_count as they were.
C40_WriteItemsCopiesAppendedInOrder ==
  [](CopiedIsAppendedPrefix) /\ [][WriteItemsStep]_vars

\* Three items of two bytes were enumerated two at a time: two, then the one
\* that remained, then a call that found no more.
C40_EnumeratedToTheEnd ==
  /\ enumerator.items_per_enumerate_ = 2
  /\ enumerator.item_size_ = 2
  /\ enumerator.item_count_ = 3
  /\ enumerator.current_item_ = 3
  /\ Len(enumerator.copied) = 6
  /\ enumerator.written_count = 1
  /\ enumerator.call.name = "WriteItems"
  /\ enumerator.call.result = X_ERROR_NO_MORE_FILES

====
